---- MODULE Spec2Model ----
(***************************************************************************)
(* Model of the AI post-processing core of polymarket-trendwatch           *)
(* (src/ai_parser.py): the boundary-aware chunker, the response JSON       *)
(* extractor, the malformed-JSON repair and the chunk orchestration.       *)
(*                                                                         *)
(* Text is a sequence of one-character strings.  The backquote character   *)
(* cannot be written inside a TLA+ string, so it is written "~" (BQ).      *)
(***************************************************************************)
EXTENDS Integers, Sequences, FiniteSets, TLC

VARIABLES
    pc,             \* position of the operation under study
    content,        \* markdown_content / content argument
    num_chunks,     \* num_chunks argument
    chunks,         \* list returned by chunk_content_by_markets
    response_text,  \* argument of extract_json_from_response / fix_json_string
    json_data,      \* outcome of the extractor or of the repair
    idx,            \* loop index i of parse_with_ai_chunked
    results,        \* results list of parse_with_ai_chunked
    calls,          \* prompts sent to self.model.generate_content, in order
    response,       \* outcome of the last generate_content call
    ret,            \* outcome of parse_with_ai_chunked
    shape,          \* how the text under study was composed
    raw_content,    \* argument of clean_content
    cleaned_content,  \* outcome of clean_content
    stages,         \* stages list of PolymarketPipeline.run_full_pipeline
    stage_results,  \* its stage_results dict
    stages_completed,  \* self.stages_completed
    files,          \* the working directory: who wrote each output file
    history,        \* files of today's snapshot directory
    invocations,    \* the run_stage* calls made so far, with their results
    pipeline_ret,   \* outcome of PolymarketPipeline.run_full_pipeline
    parser_use,     \* what the last stage 2 did with AIPolymarketParser
    summary,        \* content of summary.json in today's snapshot directory
    fetch_log,      \* requests and waits of fetch_polymarket_content, in order
    fetch_result    \* outcome of fetch_polymarket_content

vars == <<pc, content, num_chunks, chunks, response_text, json_data,
          idx, results, calls, response, ret, shape, raw_content,
          cleaned_content, stages, stage_results, stages_completed, files,
          history, invocations, pipeline_ret, parser_use, summary,
          fetch_log, fetch_result>>

chunkVars == <<content, num_chunks, chunks>>
extractVars == <<response_text, json_data, shape>>
parseVars == <<idx, results, calls, response, ret>>
cleanVars == <<raw_content, cleaned_content>>
pipeVars == <<stages, stage_results, stages_completed, files, history,
              invocations, pipeline_ret, parser_use, summary>>
fetchVars == <<fetch_log, fetch_result>>

----------------------------------------------------------------------------
(* Bounds *)

MaxLines == 4
MaxChunks == 3
MaxDepth == 1

----------------------------------------------------------------------------
(* Text helpers *)

Chars(s) == [i \in 1..Len(s) |-> SubSeq(s, i, i)]

\* the element of a one-element set; Only({e(v) : v \in {d}}) is e(d) with
\* d evaluated once
Only(S) == CHOOSE x \in S : TRUE

UpperCase == Chars("ABCDEFGHIJKLMNOPQRSTUVWXYZ")
LowerCase == Chars("abcdefghijklmnopqrstuvwxyz")

\* str.lower() on one character
LowerChar(c) ==
    IF \E k \in 1..26 : UpperCase[k] = c
    THEN LowerCase[CHOOSE k \in 1..26 : UpperCase[k] = c]
    ELSE c

\* str.lower()
Lower(s) == [k \in 1..Len(s) |-> LowerChar(s[k])]

\* s[p:p+len(pat)] == pat, p 0-based
MatchAt(s, pat, p) ==
    /\ p + Len(pat) <= Len(s)
    /\ \A k \in 1..Len(pat) : s[p + k] = pat[k]

\* str.find(pat, start): 0-based index of the first occurrence at or after
\* start, -1 when there is none
Find(s, pat, start) ==
    Only({IF hits = {} THEN -1
          ELSE CHOOSE p \in hits : \A q \in hits : p <= q :
          hits \in {{p \in start..(Len(s) - Len(pat)) : MatchAt(s, pat, p)}}})

\* pat in s
Contains(s, pat) == Find(s, pat, 0) # -1

\* s[a:b] for 0 <= a, b <= len(s)
Slice(s, a, b) == SubSeq(s, a + 1, b)

\* content.split('\n')
RECURSIVE Split(_)
Split(s) ==
    Only({IF p = -1 THEN <<s>>
          ELSE <<Slice(s, 0, p)>>
               \o Only({Split(rest) : rest \in {Slice(s, p + 1, Len(s))}}) :
          p \in {Find(s, <<"\n">>, 0)}})

\* '\n'.join(lines)
RECURSIVE Join(_)
Join(lines) ==
    IF Len(lines) = 0 THEN <<>>
    ELSE IF Len(lines) = 1 THEN lines[1]
    ELSE lines[1] \o <<"\n">> \o Join(Tail(lines))

----------------------------------------------------------------------------
(* chunk_content_by_markets and chunk_content *)

Indicators ==
    <<Chars("will "), Chars("what "), Chars("when "), Chars("who "),
      Chars("how ")>>

\* any(indicator in line.lower() for indicator in [...])
IsBoundary(line) ==
    \E k \in 1..Len(Indicators) : Contains(Lower(line), Indicators[k])

\* market_boundaries: the 0-based indices of the boundary lines, ascending
RECURSIVE BoundariesFrom(_, _)
BoundariesFrom(lines, i) ==
    IF i >= Len(lines) THEN <<>>
    ELSE (IF IsBoundary(lines[i + 1]) THEN <<i>> ELSE <<>>)
         \o BoundariesFrom(lines, i + 1)

market_boundaries(lines) == BoundariesFrom(lines, 0)

\* line-count split: the [start_idx, end_idx) range of chunk i
LineRange(i, n, nlines) ==
    LET chunk_size == nlines \div n
        start_idx == i * chunk_size
        end_idx == IF i < n - 1 THEN start_idx + chunk_size ELSE nlines
    IN  <<start_idx, end_idx>>

\* the ranges of chunk_content
chunk_content_ranges(text, n) ==
    Only({[k \in 1..n |-> LineRange(k - 1, n, Len(lines))] :
          lines \in {Split(text)}})

StartLineAlwaysBoundary(i, mb, chunk_size) == mb[i * chunk_size + 1]

StartLineBeforeBoundary(i, mb, chunk_size) ==
    IF i = 0 THEN 0 ELSE mb[i * chunk_size + 1] - 1

\* start_line of chunk i on the boundary path
StartLine(i, mb, chunk_size) ==
    IF i = 0 THEN 0 ELSE mb[i * chunk_size + 1]

EndLineInclusive(i, n, mb, chunk_size, nlines) ==
    IF i = n - 1 THEN nlines ELSE mb[i * chunk_size + chunk_size + 1] + 1

\* end_line of chunk i on the boundary path
EndLine(i, n, mb, chunk_size, nlines) ==
    IF i = n - 1 THEN nlines ELSE mb[i * chunk_size + chunk_size + 1]

\* the [start_line, end_line) ranges of chunk_content_by_markets
chunk_ranges(text, n) ==
    Only({LET chunk_size == Len(mb) \div n
          IN  IF Len(mb) < n THEN chunk_content_ranges(text, n)
              ELSE [k \in 1..n |->
                      <<StartLine(k - 1, mb, chunk_size),
                        EndLine(k - 1, n, mb, chunk_size, Len(lines))>>] :
          lines \in {Split(text)},
          mb \in {market_boundaries(Split(text))}})

\* chunk_lines = lines[start:end]; chunks.append('\n'.join(chunk_lines))
chunk_content_by_markets(text, n) ==
    Only({[k \in 1..n |-> Join(Slice(lines, rs[k][1], rs[k][2]))] :
          lines \in {Split(text)}, rs \in {chunk_ranges(text, n)}})

\* whether chunk_content_by_markets takes the line-count fallback
UsesFallback(text, n) == Len(market_boundaries(Split(text))) < n

----------------------------------------------------------------------------
(* Inputs of the chunker *)

LineSet ==
    {Chars("x"), <<>>, Chars("Who a"), Chars("will b"), Chars("whom")}

RECURSIVE LineSeqs(_)
LineSeqs(k) ==
    IF k = 0 THEN {<<>>}
    ELSE LET shorter == LineSeqs(k - 1)
         IN  shorter \cup
             {Append(ls, l) : ls \in {s \in shorter : Len(s) = k - 1},
                              l \in LineSet}

\* a text with a preamble, six boundary lines and a line between them
LongContent ==
    Chars("x\nWho a\nwill b\nWho c\nwill d\nwhom\nWho e\nwill f")

\* non-empty texts of at most MaxLines lines, and the long text
Contents ==
    ({Join(ls) : ls \in LineSeqs(MaxLines)} \ {<<>>}) \cup {LongContent}

None == <<"None">>

idleParse ==
    /\ idx = 0
    /\ results = <<>>
    /\ calls = <<>>
    /\ response = None
    /\ ret = None

idleClean ==
    /\ raw_content = <<>>
    /\ cleaned_content = None

\* summary.json before stage 3 has written it
NoSummary == [files_saved |-> <<>>, has_structured_data |-> FALSE]

\* run_stage2_intelligence returned before line 174
ParserNotUsed ==
    [entry |-> 0, constructed |-> FALSE, ran |-> FALSE, before |-> <<>>,
     after |-> <<>>]

idlePipe ==
    /\ parser_use = ParserNotUsed
    /\ summary = NoSummary
    /\ stages = <<>>
    /\ stage_results = <<>>
    /\ stages_completed = <<>>
    /\ files = <<>>
    /\ history = {}
    /\ invocations = <<>>
    /\ pipeline_ret = None

idleFetch ==
    /\ fetch_log = <<>>
    /\ fetch_result = None

NoShape == [kind |-> "none", tagged |-> <<>>, generic |-> <<>>]

idleExtract ==
    /\ response_text = <<>>
    /\ json_data = None
    /\ shape = NoShape

----------------------------------------------------------------------------
(* Specification of the chunker *)

InitChunk ==
    /\ pc = "chunk_ready"
    /\ content \in Contents
    /\ num_chunks \in 1..MaxChunks
    /\ chunks = <<>>
    /\ idleExtract
    /\ idleParse
    /\ idleClean
    /\ idleFetch
    /\ idlePipe

ChunkByMarkets ==
    /\ pc = "chunk_ready"
    /\ chunks' = chunk_content_by_markets(content, num_chunks)
    /\ pc' = "chunked"
    /\ UNCHANGED <<content, num_chunks, extractVars, parseVars>>
    /\ UNCHANGED <<cleanVars, pipeVars, fetchVars>>

NextChunk == ChunkByMarkets

SpecChunk == InitChunk /\ [][NextChunk]_vars

----------------------------------------------------------------------------
(* Claims about the chunker *)

Lines == Split(content)

\* the lines of the ranges rs[k], rs[k+1], ... one after the other
RECURSIVE ConcatSlices(_, _, _)
ConcatSlices(lines, rs, k) ==
    IF k > Len(rs) THEN <<>>
    ELSE Slice(lines, rs[k][1], rs[k][2]) \o ConcatSlices(lines, rs, k + 1)

Ranges == chunk_ranges(content, num_chunks)

\* C1: joining the returned chunks with a newline, in order, reproduces the
\* original text exactly, for every text and every chunk count >= 1, on the
\* boundary path and on the line-count fallback path.
C1_RoundTrip == pc = "chunked" => Join(chunks) = content

\* C2: when the content has fewer boundary lines than the requested chunk
\* count, exactly num_chunks chunks are returned, they are the equal-size
\* line-count split, and the round trip still holds.
C2_FallbackCountAndRoundTrip ==
    (pc = "chunked" /\ UsesFallback(content, num_chunks)) =>
        /\ Len(chunks) = num_chunks
        /\ Ranges = chunk_content_ranges(content, num_chunks)
        /\ Join(chunks) = content

\* C3: the line ranges of the returned chunks are contiguous, disjoint and
\* cover all lines: the first starts at line 0, each starts where the
\* previous one ends, the last ends at the last line, and each chunk is the
\* text of exactly the lines of its range, in order.
C3_Partition ==
    pc = "chunked" =>
        /\ Len(chunks) = num_chunks
        /\ Ranges[1][1] = 0
        /\ Ranges[num_chunks][2] = Len(Lines)
        /\ \A k \in 1..num_chunks : Ranges[k][1] <= Ranges[k][2]
        /\ \A k \in 1..(num_chunks - 1) : Ranges[k][2] = Ranges[k + 1][1]
        /\ \A k \in 1..num_chunks :
              chunks[k] = Join(Slice(Lines, Ranges[k][1], Ranges[k][2]))
        /\ ConcatSlices(Lines, Ranges, 1) = Lines

\* a three-way boundary split of a text with a preamble line
C3_Witness ==
    /\ pc = "chunked"
    /\ num_chunks = 3
    /\ ~UsesFallback(content, num_chunks)
    /\ Len(Lines) > 3

\* C4: with num_chunks = 1 exactly one chunk is returned and it is the whole
\* content, with or without boundary lines.
C4_SingleChunk ==
    (pc = "chunked" /\ num_chunks = 1) => chunks = <<content>>

\* one chunk requested of a text whose first line is not its first boundary
C4_Witness ==
    /\ pc = "chunked"
    /\ num_chunks = 1
    /\ ~UsesFallback(content, num_chunks)
    /\ ~IsBoundary(Lines[1])
    /\ chunks = <<content>>

----------------------------------------------------------------------------
(* json.loads: the decoder of the Python standard library, on which the    *)
(* extractor and the repair rely.                                           *)
(*                                                                          *)
(* A Python value is a tuple whose first element is its type:               *)
(*   None, True, False, <<"num", lexeme>>, <<"str", chars>>,                *)
(*   <<"arr", items>>, <<"obj", [key |-> value]>>.                          *)
(* Raised stands for a propagating exception.                               *)

True == <<"True">>
False == <<"False">>
Raised == <<"raise">>

JsonWs == {" ", "\t", "\n", "\r"}
Digits == {"0", "1", "2", "3", "4", "5", "6", "7", "8", "9"}

ParseFail == [ok |-> FALSE, val |-> None, end |-> 0]
ParseOk(v, e) == [ok |-> TRUE, val |-> v, end |-> e]

\* s[p:p+1], p 0-based
CharAt(s, p) == IF p < Len(s) THEN s[p + 1] ELSE ""

\* WHITESPACE.match(s, p).end()
RECURSIVE SkipWs(_, _)
SkipWs(s, p) == IF CharAt(s, p) \in JsonWs THEN SkipWs(s, p + 1) ELSE p

\* end of the run of digits starting at p
RECURSIVE SkipDigits(_, _)
SkipDigits(s, p) == IF CharAt(s, p) \in Digits THEN SkipDigits(s, p + 1) ELSE p

\* NUMBER_RE.match(s, p): (-?(?:0|[1-9]\d*))(\.\d+)?([eE][-+]?\d+)?
\* the end of the match, or -1
NumberEnd(s, p) ==
    LET q == IF CharAt(s, p) = "-" THEN p + 1 ELSE p
        intEnd == IF CharAt(s, q) = "0" THEN q + 1
                  ELSE IF CharAt(s, q) \in Digits THEN SkipDigits(s, q)
                  ELSE -1
        fracEnd == IF CharAt(s, intEnd) = "." /\ CharAt(s, intEnd + 1) \in Digits
                   THEN SkipDigits(s, intEnd + 1) ELSE intEnd
        signEnd == IF CharAt(s, fracEnd + 1) \in {"-", "+"}
                   THEN fracEnd + 2 ELSE fracEnd + 1
        expEnd == IF CharAt(s, fracEnd) \in {"e", "E"}
                     /\ CharAt(s, signEnd) \in Digits
                  THEN SkipDigits(s, signEnd) ELSE fracEnd
    IN  IF intEnd = -1 THEN -1 ELSE expEnd

EscapeOf(c) ==
    CASE c = "\"" -> "\""
      [] c = "\\" -> "\\"
      [] c = "/" -> "/"
      [] c = "n" -> "\n"
      [] c = "r" -> "\r"
      [] c = "t" -> "\t"
      [] c = "f" -> "\f"
      [] OTHER -> ""

\* scanstring(s, p) in strict mode, p just after the opening quote; control
\* characters end the scan with an error; \b and \uXXXX escapes are not
\* modelled (no modelled text holds them)
RECURSIVE ScanString(_, _, _)
ScanString(s, p, acc) ==
    LET c == CharAt(s, p)
    IN  IF c = "" THEN ParseFail
        ELSE IF c = "\"" THEN ParseOk(acc, p + 1)
        ELSE IF c \in {"\n", "\t", "\r", "\f"} THEN ParseFail
        ELSE IF c = "\\"
             THEN IF EscapeOf(CharAt(s, p + 1)) = "" THEN ParseFail
                  ELSE ScanString(s, p + 2,
                                  Append(acc, EscapeOf(CharAt(s, p + 1))))
        ELSE ScanString(s, p + 1, Append(acc, c))

\* dict[k] = v
DictSet(d, k, v) ==
    [x \in (DOMAIN d) \cup {k} |-> IF x = k THEN v ELSE d[x]]

RECURSIVE ScanOnce(_, _)
RECURSIVE JSONObjectPairs(_, _, _)
RECURSIVE JSONArrayItems(_, _, _)

\* JSONObject's loop, p just after the opening quote of a key
JSONObjectPairs(s, p, d) ==
    Only({IF ~key.ok \/ CharAt(s, SkipWs(s, key.end)) # ":" THEN ParseFail
          ELSE Only({
              LET q == SkipWs(s, value.end)
                  nextKey == SkipWs(s, q + 1)
              IN  IF ~value.ok THEN ParseFail
                  ELSE IF CharAt(s, q) = "}"
                       THEN ParseOk(<<"obj", DictSet(d, key.val, value.val)>>,
                                    q + 1)
                  ELSE IF CharAt(s, q) # "," \/ CharAt(s, nextKey) # "\""
                       THEN ParseFail
                  ELSE JSONObjectPairs(s, nextKey + 1,
                                       DictSet(d, key.val, value.val)) :
              value \in {ScanOnce(s, SkipWs(s, SkipWs(s, key.end) + 1))}}) :
          key \in {ScanString(s, p, <<>>)}})

\* JSONArray's loop, p at the start of an item
JSONArrayItems(s, p, acc) ==
    Only({LET q == SkipWs(s, value.end)
          IN  IF ~value.ok THEN ParseFail
              ELSE IF CharAt(s, q) = "]"
                   THEN ParseOk(<<"arr", Append(acc, value.val)>>, q + 1)
              ELSE IF CharAt(s, q) # "," THEN ParseFail
              ELSE JSONArrayItems(s, SkipWs(s, q + 1),
                                  Append(acc, value.val)) :
          value \in {ScanOnce(s, p)}})

\* the string starting at the quote at p
JSONString(s, p) ==
    Only({IF str.ok THEN ParseOk(<<"str", str.val>>, str.end)
          ELSE ParseFail :
          str \in {ScanString(s, p + 1, <<>>)}})

\* the number starting at p, if there is one
JSONNumber(s, p) ==
    Only({IF end = -1 THEN ParseFail
          ELSE ParseOk(<<"num", Slice(s, p, end)>>, end) :
          end \in {NumberEnd(s, p)}})

\* scan_once(s, p)
ScanOnce(s, p) ==
    LET c == CharAt(s, p)
        q == SkipWs(s, p + 1)
    IN  CASE c = "\"" -> JSONString(s, p)
          [] c = "{" ->
               IF CharAt(s, q) = "}" THEN ParseOk(<<"obj", <<>>>>, q + 1)
               ELSE IF CharAt(s, q) = "\"" THEN JSONObjectPairs(s, q + 1, <<>>)
               ELSE ParseFail
          [] c = "[" ->
               IF CharAt(s, q) = "]" THEN ParseOk(<<"arr", <<>>>>, q + 1)
               ELSE JSONArrayItems(s, q, <<>>)
          [] c = "n" /\ MatchAt(s, Chars("null"), p) -> ParseOk(None, p + 4)
          [] c = "t" /\ MatchAt(s, Chars("true"), p) -> ParseOk(True, p + 4)
          [] c = "f" /\ MatchAt(s, Chars("false"), p) -> ParseOk(False, p + 5)
          [] c \in Digits \cup {"-"} /\ ~MatchAt(s, Chars("-I"), p) ->
               JSONNumber(s, p)
          [] c = "N" /\ MatchAt(s, Chars("NaN"), p) ->
               ParseOk(<<"num", Chars("NaN")>>, p + 3)
          [] c = "I" /\ MatchAt(s, Chars("Infinity"), p) ->
               ParseOk(<<"num", Chars("Infinity")>>, p + 8)
          [] c = "-" /\ MatchAt(s, Chars("-Infinity"), p) ->
               ParseOk(<<"num", Chars("-Infinity")>>, p + 9)
          [] OTHER -> ParseFail

\* JSONDecoder.decode(s): one value between optional whitespace, nothing
\* after it; ~ok stands for json.JSONDecodeError
Decode(s) ==
    Only({Only({IF r.ok /\ SkipWs(text, r.end) = Len(text) THEN r
                ELSE ParseFail :
                r \in {ScanOnce(text, SkipWs(text, 0))}}) :
          text \in {s}})

\* whether json.loads(s) returns
Parses(s) == Decode(s).ok

\* the value json.loads(s) returns
Loads(s) == Decode(s).val

----------------------------------------------------------------------------
(* fix_json_string *)

\* the characters str.strip() removes and the regular expression \s matches
PyWs == JsonWs \cup {"\f"}

Closers == {"}", "]"}

\* end of the run of \s characters starting at p
RECURSIVE SkipReWs(_, _)
SkipReWs(s, p) == IF CharAt(s, p) \in PyWs THEN SkipReWs(s, p + 1) ELSE p

RECURSIVE SubNoWhitespaceFrom(_, _)
SubNoWhitespaceFrom(s, p) ==
    IF p >= Len(s) THEN <<>>
    ELSE IF s[p + 1] = "," /\ CharAt(s, p + 1) \in Closers
         THEN <<CharAt(s, p + 1)>> \o SubNoWhitespaceFrom(s, p + 2)
    ELSE <<s[p + 1]>> \o SubNoWhitespaceFrom(s, p + 1)

\* re.sub(r',(\s*[}\]])', r'\1', s) from position p on: the leftmost match
\* is replaced by its group and the scan resumes after the match
RECURSIVE SubFrom(_, _)
SubFrom(s, p) ==
    IF p >= Len(s) THEN <<>>
    ELSE Only({IF s[p + 1] = "," /\ CharAt(s, q) \in Closers
               THEN Slice(s, p + 1, q + 1) \o SubFrom(s, q + 1)
               ELSE <<s[p + 1]>> \o SubFrom(s, p + 1) :
               q \in {SkipReWs(s, p + 1)}})

FixedNoWhitespace(s) == Only({SubNoWhitespaceFrom(text, 0) : text \in {s}})

\* fixed = re.sub(...)
Fixed(s) == Only({SubFrom(text, 0) : text \in {s}})

FixUnvalidated(s) == IF s = None THEN None ELSE Fixed(s)

\* fix_json_string(json_str): the substituted string when json.loads
\* accepts it; the bare except turns every exception into None
fix_json_string(s) ==
    IF s = None THEN None
    ELSE Only({IF Parses(fixed) THEN fixed ELSE None : fixed \in {Fixed(s)}})

----------------------------------------------------------------------------
(* extract_json_from_response *)

BQ == "~"
Fence == <<BQ, BQ, BQ>>
FenceJson == Fence \o Chars("json")

\* str.strip(): from the first to the last character that is not
\* whitespace
Strip(s) ==
    Only({IF inked = {} THEN <<>>
          ELSE SubSeq(s, CHOOSE a \in inked : \A k \in inked : a <= k,
                         CHOOSE b \in inked : \A k \in inked : k <= b) :
          inked \in {{k \in 1..Len(s) : s[k] \notin PyWs}}})

\* outcome of one strategy: a return statement was executed, or control
\* falls through to the next strategy
Return(v) == [done |-> TRUE, val |-> v]
FallThrough == [done |-> FALSE, val |-> None]

\* json.loads(s) where no handler encloses the call
LoadsOrRaise(s) ==
    Only({IF r.ok THEN r.val ELSE Raised : r \in {Decode(s)}})

\* try: return json.loads(json_str)
\* except JSONDecodeError: fixed_json = fix(json_str);
\*                         if fixed_json: return json.loads(fixed_json)
ParseOrFix(json_str) ==
    Only({IF r.ok THEN Return(r.val)
          ELSE Only({IF fixed_json # None /\ Len(fixed_json) > 0
                     THEN Return(LoadsOrRaise(fixed_json))
                     ELSE FallThrough :
                     fixed_json \in {fix_json_string(json_str)}}) :
          r \in {Decode(json_str)}})

\* the block between marker (at its first occurrence) and the next fence
FencedBlock(t, marker) ==
    Only({Only({IF first # -1 /\ end # -1
                THEN Return(Strip(Slice(t, first + Len(marker), end)))
                ELSE FallThrough :
                end \in {Find(t, Fence, first + Len(marker))}}) :
          first \in {Find(t, marker, 0)}})

TaggedFenceOrFail(t) ==
    Only({IF ~block.done THEN
              IF Contains(t, FenceJson) THEN Return(None) ELSE FallThrough
          ELSE Only({IF parsed.done THEN parsed ELSE Return(None) :
                     parsed \in {ParseOrFix(block.val)}}) :
          block \in {FencedBlock(t, FenceJson)}})

\* if '~~~json' in response_text: ...
TaggedFence(t) ==
    Only({IF block.done THEN ParseOrFix(block.val) ELSE FallThrough :
          block \in {FencedBlock(t, FenceJson)}})

\* if '~~~' in response_text: ...
GenericFence(t) ==
    Only({IF block.done THEN ParseOrFix(block.val) ELSE FallThrough :
          block \in {FencedBlock(t, Fence)}})

\* try: return json.loads(response_text.strip())
WholeResponse(t) ==
    Only({IF r.ok THEN Return(r.val) ELSE FallThrough :
          r \in {Decode(Strip(t))}})

\* re.findall(r'\{.*\}', t, re.DOTALL): the greedy match runs from the
\* first "{" to the last "}", so there is at most one match
BraceMatches(t) ==
    LET first == Find(t, <<"{">>, 0)
        closes == {p \in 0..(Len(t) - 1) : t[p + 1] = "}"}
        last == CHOOSE p \in closes : \A q \in closes : q <= p
    IN  IF first = -1 \/ closes = {} THEN <<>>
        ELSE IF last < first THEN <<>>
        ELSE <<Slice(t, first, last + 1)>>

\* for i, match in enumerate(matches): ...
RECURSIVE ScanMatches(_, _)
ScanMatches(matches, k) ==
    IF k > Len(matches) THEN FallThrough
    ELSE Only({
        IF r.ok THEN Return(r.val)
        ELSE Only({IF fixed_json # None /\ Len(fixed_json) > 0
                      /\ Parses(fixed_json)
                   THEN Return(Loads(fixed_json))
                   ELSE ScanMatches(matches, k + 1) :
                   fixed_json \in {fix_json_string(matches[k])}}) :
        r \in {Decode(matches[k])}})

BraceScanNoRepair(t) ==
    Only({IF Len(matches) > 0 /\ Parses(matches[1])
          THEN Return(Loads(matches[1])) ELSE FallThrough :
          matches \in {BraceMatches(t)}})

BraceScan(t) == Only({ScanMatches(matches, 1) : matches \in {BraceMatches(t)}})

ExtractBodyGenericFirst(t) ==
    IF t = None THEN Raised
    ELSE Only({
        IF first.done THEN first.val
        ELSE Only({
            IF second.done THEN second.val
            ELSE Only({
                IF third.done THEN third.val
                ELSE Only({IF fourth.done THEN fourth.val ELSE None :
                           fourth \in {BraceScan(t)}}) :
                third \in {WholeResponse(t)}}) :
            second \in {TaggedFence(t)}}) :
        first \in {GenericFence(t)}})

\* the body of the try block; a response that is not a string raises at
\* len(response_text)
ExtractBody(t) ==
    IF t = None THEN Raised
    ELSE Only({
        IF first.done THEN first.val
        ELSE Only({
            IF second.done THEN second.val
            ELSE Only({
                IF third.done THEN third.val
                ELSE Only({IF fourth.done THEN fourth.val ELSE None :
                           fourth \in {BraceScan(t)}}) :
                third \in {WholeResponse(t)}}) :
            second \in {GenericFence(t)}}) :
        first \in {TaggedFence(t)}})

Reraise(outcome) == outcome

\* except Exception as e: ... return None
ExceptReturnNone(outcome) == IF outcome = Raised THEN None ELSE outcome

extract_json_from_response(t) ==
    Only({ExceptReturnNone(outcome) :
          outcome \in {Only({ExtractBody(text) : text \in {t}})}})

----------------------------------------------------------------------------
(* Inputs of the extractor and of the repair *)

JsonScalars == {Chars("1"), Chars("\"a\""), Chars("{}"), Chars("[]")}

\* valid JSON texts nested at most d levels
RECURSIVE JsonTexts(_)
JsonTexts(d) ==
    IF d <= 0 THEN JsonScalars
    ELSE LET sub == JsonTexts(d - 1)
         IN  sub \cup {Chars("[") \o v \o Chars("]") : v \in sub}
                 \cup {Chars("[") \o v \o Chars(", 2]") : v \in sub}
                 \cup {Chars("{\"a\": ") \o v \o Chars("}") : v \in sub}

\* valid JSON whose string values hold fence markers, braces or commas
QuotedMarkup ==
    {<<"\"">> \o FenceJson \o Chars("1") \o Fence \o <<"\"">>,
     Chars("{\"a\":\"") \o Fence \o Chars("[2]") \o Fence \o Chars("\"}"),
     Chars("\"{1}\""),
     Chars("{\"a\":\",}\"}")}

\* t with ins inserted before every closing brace or bracket
RECURSIVE BeforeClosers(_, _)
BeforeClosers(t, ins) ==
    IF Len(t) = 0 THEN <<>>
    ELSE (IF t[1] \in Closers THEN ins ELSE <<>>)
         \o <<t[1]>> \o BeforeClosers(Tail(t), ins)

\* t with ins inserted before its last character
BeforeLast(t, ins) ==
    SubSeq(t, 1, Len(t) - 1) \o ins \o <<t[Len(t)]>>

Closed == {t \in JsonTexts(MaxDepth) : t[Len(t)] \in Closers}

\* "{"a": 1, "b": [1,2,],}"
RepairExample == Chars("{\"a\": 1, \"b\": [1,2,],}")
RepairExpected == Chars("{\"a\": 1, \"b\": [1, 2]}")

TrailingCommaTexts ==
    {BeforeClosers(t, ins) : t \in Closed,
                             ins \in {Chars(","), Chars(", "), Chars(",\n ")}}
    \cup {BeforeLast(t, Chars(",")) : t \in Closed}
    \cup {RepairExample}

DoubledCommaTexts == {BeforeLast(t, Chars(",,")) : t \in Closed}

OtherDefectTexts ==
    {SubSeq(t, 1, Len(t) - 1) : t \in Closed}
    \cup {Tail(t) : t \in Closed}
    \cup {Chars("oops"), Chars("[1 2]"), <<>>, Chars(" \n")}

Bodies ==
    JsonTexts(MaxDepth) \cup QuotedMarkup \cup TrailingCommaTexts
    \cup DoubledCommaTexts \cup OtherDefectTexts

Prose == {<<>>, Chars("ok "), Chars("\n"), Chars("{x} ")}

Input(k, text, a, b) ==
    [kind |-> k, text |-> text, tagged |-> a, generic |-> b]

PlainInputs ==
    {Input("plain", pre \o body \o post, <<>>, <<>>) :
        pre \in Prose, body \in Bodies, post \in Prose}

FencedInputs ==
    {Input("fenced", pre \o marker \o <<"\n">> \o body \o close, <<>>, <<>>) :
        pre \in {<<>>, Chars("ok ")}, marker \in {Fence, FenceJson},
        body \in Bodies,
        close \in {<<>>, Fence, <<"\n">> \o Fence \o Chars(" {x}")}}

\* a JSON-tagged block and a generic block holding different JSON values
BothInputs ==
    LET texts == JsonTexts(MaxDepth - 1) \cup {Chars("{\"a\": 1}")}
        pairs == {p \in texts \X texts : Loads(p[1]) # Loads(p[2])}
        between == {<<>>, Chars("\n"), Chars(" or {x} ")}
    IN  {Input("tagged_first",
               pre \o FenceJson \o <<"\n">> \o p[1] \o <<"\n">> \o Fence
                   \o mid \o Fence \o p[2] \o Fence \o post, p[1], p[2]) :
            pre \in {<<>>, Chars("ok ")}, p \in pairs, mid \in between,
            post \in {<<>>, Chars(" ok")}}
        \cup
        {Input("generic_first",
               pre \o Fence \o p[2] \o Fence \o mid
                   \o FenceJson \o <<"\n">> \o p[1] \o <<"\n">> \o Fence
                   \o post, p[1], p[2]) :
            pre \in {<<>>, Chars("ok ")}, p \in pairs, mid \in between,
            post \in {<<>>, Chars(" ok")}}

\* the candidate strings handed to fix_json_string
RepairInputs == {Input("candidate", body, <<>>, <<>>) : body \in Bodies}

\* response.text that is not a string
NoTextInputs == {Input("no_text", None, <<>>, <<>>)}

ExtractInputs ==
    PlainInputs \cup FencedInputs \cup BothInputs \cup NoTextInputs

----------------------------------------------------------------------------
(* Specification of the extractor and of the repair *)

InitJson ==
    /\ \E in \in ExtractInputs \cup RepairInputs :
          /\ pc = (IF in.kind = "candidate" THEN "fix_ready"
                   ELSE "extract_ready")
          /\ response_text = in.text
          /\ shape = [kind |-> in.kind, tagged |-> in.tagged,
                      generic |-> in.generic]
    /\ json_data = None
    /\ content = <<>>
    /\ num_chunks = 1
    /\ chunks = <<>>
    /\ idleParse
    /\ idleClean
    /\ idleFetch
    /\ idlePipe

ExtractJson ==
    /\ pc = "extract_ready"
    /\ json_data' = extract_json_from_response(response_text)
    /\ pc' = "extracted"
    /\ UNCHANGED <<response_text, shape, chunkVars, parseVars>>
    /\ UNCHANGED <<cleanVars, pipeVars, fetchVars>>

FixJson ==
    /\ pc = "fix_ready"
    /\ json_data' = fix_json_string(response_text)
    /\ pc' = "fixed"
    /\ UNCHANGED <<response_text, shape, chunkVars, parseVars>>
    /\ UNCHANGED <<cleanVars, pipeVars, fetchVars>>

NextJson == ExtractJson \/ FixJson

SpecJson == InitJson /\ [][NextJson]_vars

----------------------------------------------------------------------------
(* Claims about the extractor *)

\* C5: for every response that is already valid JSON, including JSON whose
\* string values hold fence markers or braces, the extractor returns the
\* value that parsing the response directly gives.
C5_IdempotentOnValidJson ==
    (pc = "extracted" /\ response_text # None /\ Parses(response_text)) =>
        json_data = Loads(response_text)

\* C6: for a response holding a JSON-tagged fenced block and a generic
\* fenced block with different valid JSON, in either order, the value
\* returned is the content of the JSON-tagged block.
C6_TaggedFenceWins ==
    (pc = "extracted" /\ shape.kind \in {"tagged_first", "generic_first"}) =>
        json_data = Loads(shape.tagged)

\* the generic block comes first and the tagged block's value is returned
C6_Witness ==
    /\ pc = "extracted"
    /\ shape.kind = "generic_first"
    /\ Loads(shape.generic) # Loads(shape.tagged)
    /\ json_data = Loads(shape.tagged)
    /\ json_data # None

\* a comma that is followed, after optional whitespace, by a closer
TrailingCommaAt(s, k) ==
    /\ s[k] = ","
    /\ \E j \in (k + 1)..Len(s) :
          /\ s[j] \in Closers
          /\ \A m \in (k + 1)..(j - 1) : s[m] \in PyWs

\* s without its trailing commas
RECURSIVE WithoutTrailingCommas(_, _)
WithoutTrailingCommas(s, k) ==
    IF k > Len(s) THEN <<>>
    ELSE (IF TrailingCommaAt(s, k) THEN <<>> ELSE <<s[k]>>)
         \o WithoutTrailingCommas(s, k + 1)

\* s parses as it is or once its trailing commas are removed
Recoverable(s) == Parses(s) \/ Parses(WithoutTrailingCommas(s, 1))

\* the positions of the occurrences of pat in t, 0-based
Occurrences(t, pat) == {p \in 0..(Len(t) - Len(pat)) : MatchAt(t, pat, p)}

\* the text after the first occurrence of marker, up to the next fence,
\* is recoverable
BlockRecoverable(t, marker) ==
    \E a \in Occurrences(t, marker) :
        /\ \A a2 \in Occurrences(t, marker) : a <= a2
        /\ \E b \in Occurrences(t, Fence) :
              /\ b >= a + Len(marker)
              /\ \A b2 \in Occurrences(t, Fence) :
                    b2 >= a + Len(marker) => b <= b2
              /\ Recoverable(Strip(Slice(t, a + Len(marker), b)))

\* the text from the first "{" to the last "}" is recoverable
BracesRecoverable(t) ==
    \E a, b \in 1..Len(t) :
        /\ a < b
        /\ t[a] = "{" /\ \A k \in 1..(a - 1) : t[k] # "{"
        /\ t[b] = "}" /\ \A k \in (b + 1)..Len(t) : t[k] # "}"
        /\ Recoverable(SubSeq(t, a, b))

\* none of the four strategies has a candidate it can parse
NothingToExtract(t) ==
    \/ t = None
    \/ /\ ~BlockRecoverable(t, FenceJson)
       /\ ~BlockRecoverable(t, Fence)
       /\ ~Parses(Strip(t))
       /\ ~BracesRecoverable(t)

\* C7: when none of the four strategies yields parseable JSON, the extractor
\* returns None, and no call of the extractor raises to its caller.
C7_FailureIsNone ==
    pc = "extracted" =>
        /\ json_data # Raised
        /\ NothingToExtract(response_text) => json_data = None

\* a response with a fenced block and braces, none of which parses
C7_Witness ==
    /\ pc = "extracted"
    /\ response_text # None
    /\ Contains(response_text, Fence)
    /\ Contains(response_text, <<"{">>)
    /\ NothingToExtract(response_text)
    /\ json_data = None

----------------------------------------------------------------------------
(* Claims about the repair *)

\* C8: the repair removes every comma that is followed, after optional
\* whitespace, by a closing brace or bracket, and nothing else; the string
\* {"a": 1, "b": [1,2,],} is repaired to one that parses as
\* {"a": 1, "b": [1, 2]}.
C8_RemovesTrailingCommas ==
    pc = "fixed" =>
        /\ Fixed(response_text) = WithoutTrailingCommas(response_text, 1)
        /\ json_data # None =>
              json_data = WithoutTrailingCommas(response_text, 1)
        /\ response_text = RepairExample =>
              /\ json_data # None
              /\ Loads(json_data) = Loads(RepairExpected)

\* the example of the specification has been repaired
C8_Witness ==
    /\ pc = "fixed"
    /\ response_text = RepairExample
    /\ json_data = Chars("{\"a\": 1, \"b\": [1,2]}")

\* C9: the repair returns a string that json.loads accepts or None, never an
\* unparseable string and never an exception; a string that still has a
\* defect once its trailing commas are removed, such as a doubled trailing
\* comma, yields None.
C9_ParseableOrNone ==
    pc = "fixed" =>
        /\ json_data # Raised
        /\ json_data = None \/ Parses(json_data)
        /\ ~Parses(WithoutTrailingCommas(response_text, 1)) => json_data = None
        /\ response_text \in DoubledCommaTexts => json_data = None

\* a doubled trailing comma has been refused
C9_Witness ==
    /\ pc = "fixed"
    /\ response_text \in DoubledCommaTexts
    /\ Fixed(response_text) # response_text
    /\ json_data = None

----------------------------------------------------------------------------
(* combine_market_results, parse_with_ai and parse_with_ai_chunked *)

IsObj(v) == Len(v) = 2 /\ v[1] = "obj"
IsArr(v) == Len(v) = 2 /\ v[1] = "arr"
IsStr(v) == Len(v) = 2 /\ v[1] = "str"
IsNum(v) == Len(v) = 2 /\ v[1] = "num"

\* the mantissa of a number lexeme has a digit other than 0
NonZero(lexeme) ==
    LET e == {k \in 1..Len(lexeme) : lexeme[k] \in {"e", "E"}}
        mantissaEnd == IF e = {} THEN Len(lexeme)
                       ELSE (CHOOSE k \in e : \A m \in e : k <= m) - 1
    IN  \/ lexeme = Chars("NaN")
        \/ \E k \in 1..mantissaEnd : lexeme[k] \in (Digits \ {"0"})
        \/ Contains(lexeme, Chars("Infinity"))

\* bool(v)
Truthy(v) ==
    IF v = None \/ v = False THEN FALSE
    ELSE IF v = True THEN TRUE
    ELSE IF IsNum(v) THEN NonZero(v[2])
    ELSE IF IsObj(v) THEN DOMAIN v[2] # {}
    ELSE Len(v[2]) > 0

Markets == Chars("markets")

\* the keys of a dict in one order (insertion order is not modelled)
RECURSIVE KeySeq(_)
KeySeq(keys) ==
    IF keys = {} THEN <<>>
    ELSE LET k == CHOOSE x \in keys : TRUE
         IN  <<k>> \o KeySeq(keys \ {k})

\* list(v) for the values that can be iterated
Items(v) ==
    IF IsArr(v) THEN v[2]
    ELSE IF IsStr(v) THEN [k \in 1..Len(v[2]) |-> <<"str", <<v[2][k]>>>>]
    ELSE [k \in 1..Len(KeySeq(DOMAIN v[2])) |->
            <<"str", KeySeq(DOMAIN v[2])[k]>>]

\* len(v) raises TypeError
HasNoLen(v) == ~(IsArr(v) \/ IsStr(v) \/ IsObj(v))

\* json_data.get('markets', [])
GetMarkets(d) ==
    IF Markets \in DOMAIN d[2] THEN d[2][Markets] ELSE <<"arr", <<>>>>

\* len(json_data.get('markets', [])) in the log line raises: json_data has
\* no get method, or the value under "markets" has no length
LogLineRaises(v) == ~IsObj(v) \/ HasNoLen(GetMarkets(v))

\* 'markets' in result
HasMarkets(result) ==
    IF IsObj(result) THEN Markets \in DOMAIN result[2]
    ELSE IF IsArr(result)
         THEN \E k \in 1..Len(result[2]) : result[2][k] = <<"str", Markets>>
    ELSE IF IsStr(result) THEN Contains(result[2], Markets)
    ELSE FALSE

\* combined_markets after the results k, k+1, ...; Raised when the
\* membership test, the subscript or extend raises
RECURSIVE CombineFrom(_, _, _)
CombineFrom(rs, k, acc) ==
    IF k > Len(rs) THEN acc
    ELSE LET result == rs[k]
         IN  IF ~Truthy(result) THEN CombineFrom(rs, k + 1, acc)
             ELSE IF IsNum(result) \/ result = True THEN Raised
             ELSE IF ~HasMarkets(result) THEN CombineFrom(rs, k + 1, acc)
             ELSE IF ~IsObj(result) THEN Raised
             ELSE IF HasNoLen(result[2][Markets]) THEN Raised
             ELSE CombineFrom(rs, k + 1,
                              acc \o Items(result[2][Markets]))

combine_results_reversed(rs) ==
    LET combined_markets ==
            CombineFrom([k \in 1..Len(rs) |-> rs[Len(rs) + 1 - k]], 1, <<>>)
    IN  IF combined_markets = Raised THEN Raised
        ELSE <<"obj", DictSet(<<>>, Markets, <<"arr", combined_markets>>)>>

\* combine_market_results(results)
combine_market_results(rs) ==
    LET combined_markets == CombineFrom(rs, 1, <<>>)
    IN  IF combined_markets = Raised THEN Raised
        ELSE <<"obj", DictSet(<<>>, Markets, <<"arr", combined_markets>>)>>

\* chunk_content_by_markets raises: with num_chunks = 0 the test of line 149
\* is false and the division of line 154 raises ZeroDivisionError
ChunkingRaises(text, n) == n = 0

\* response.text is a non-empty string
HasText(reply) == reply # Raised /\ reply # None /\ Len(reply) > 0

parse_with_ai_unguarded(reply) ==
    IF reply = Raised THEN Raised
    ELSE IF ~HasText(reply) THEN None
    ELSE IF Truthy(extract_json_from_response(reply))
         THEN extract_json_from_response(reply)
    ELSE None

\* what parse_with_ai returns for the reply of its generate_content call
parse_with_ai_result(reply) ==
    IF ~HasText(reply) THEN None
    ELSE IF Truthy(extract_json_from_response(reply))
         THEN extract_json_from_response(reply)
    ELSE None

\* the way one iteration of the chunk loop ends for a reply: "append" when
\* the extracted value is kept and the loop goes on, "fallback" when the
\* iteration returns self.parse_with_ai(markdown_content), directly or from
\* the except clause
ChunkOutcome(reply) ==
    IF ~HasText(reply) THEN "fallback"
    ELSE IF ~Truthy(extract_json_from_response(reply)) THEN "fallback"
    ELSE IF LogLineRaises(extract_json_from_response(reply)) THEN "fallback"
    ELSE "append"

----------------------------------------------------------------------------
(* Inputs of the orchestration: contents and the replies of the model *)

ReplyFenced ==
    FenceJson \o Chars("\n{\"markets\": [1]}\n") \o Fence
ReplyPlain == Chars("{\"markets\": [2, 3]}")
ReplyTrailingComma == Chars("Here: {\"markets\": [4,],}")
ReplyNoMarkets == Chars("{\"a\": 1}")
ReplyEmpty == <<>>
ReplyProse == Chars("I cannot")
ReplyEmptyObject == Chars("{}")
ReplyArray == Chars("[1]")

ModelReplies ==
    {ReplyFenced, ReplyPlain, ReplyTrailingComma, ReplyNoMarkets, ReplyEmpty,
     ReplyProse, ReplyEmptyObject, ReplyArray, Raised}

ParseContents ==
    {Chars("intro\nWill a\nx\nWho b\nwhen c"), Chars("x\ny"), Chars("Will a")}

RetryChunkText(text, cs, i) ==
    IF i < Len(cs) THEN cs[i + 1] ELSE text

\* the text of the prompt of parse_with_ai(markdown_content)
FallbackPromptText(text, cs, i) == text

ChunkCallZeroBased(i, total, text, reply) ==
    [kind |-> "chunk", index |-> i - 1, total |-> total, text |-> text,
     reply |-> reply]

ChunkCall(i, total, text, reply) ==
    [kind |-> "chunk", index |-> i, total |-> total, text |-> text,
     reply |-> reply]

WholeCall(text, reply) ==
    [kind |-> "whole", index |-> 0, total |-> 0, text |-> text,
     reply |-> reply]

----------------------------------------------------------------------------
(* Specification of parse_with_ai_chunked *)

InitParse ==
    /\ pc = "parse_ready"
    /\ content \in ParseContents
    /\ num_chunks \in 0..MaxChunks
    /\ chunks = <<>>
    /\ idleExtract
    /\ idleParse
    /\ idleClean
    /\ idleFetch
    /\ idlePipe

\* chunks = self.chunk_content_by_markets(markdown_content, num_chunks)
\* (when it raises, the except clause of line 277 takes over)
StartChunked ==
    /\ pc = "parse_ready"
    /\ IF ChunkingRaises(content, num_chunks)
       THEN chunks' = chunks /\ pc' = "fallback"
       ELSE /\ chunks' = chunk_content_by_markets(content, num_chunks)
            /\ pc' = "chunk_loop"
    /\ results' = <<>>
    /\ idx' = 0
    /\ UNCHANGED <<content, num_chunks, extractVars, calls, response, ret>>
    /\ UNCHANGED <<cleanVars, pipeVars, fetchVars>>

\* one iteration of the loop: the model is called with the prompt of chunk
\* idx and answers with reply (Raised: generate_content or response.text
\* raises)
ProcessChunk ==
    /\ pc = "chunk_loop"
    /\ idx < Len(chunks)
    /\ \E reply \in ModelReplies :
          /\ response' = reply
          /\ calls' = Append(calls, ChunkCall(idx + 1, Len(chunks),
                                              chunks[idx + 1], reply))
          /\ IF ChunkOutcome(reply) = "append"
             THEN /\ results' = Append(results,
                                       extract_json_from_response(reply))
                  /\ idx' = idx + 1
                  /\ pc' = IF idx + 1 < Len(chunks) THEN "chunk_loop"
                           ELSE "combine"
             ELSE /\ results' = results
                  /\ idx' = idx
                  /\ pc' = "fallback"
    /\ UNCHANGED <<chunkVars, extractVars, ret>>
    /\ UNCHANGED <<cleanVars, pipeVars, fetchVars>>

\* after the loop: if results: return self.combine_market_results(results)
CombineResults ==
    /\ pc = "combine"
    /\ IF Len(results) = 0
       THEN ret' = None /\ pc' = "done"
       ELSE IF combine_market_results(results) = Raised
       THEN ret' = ret /\ pc' = "fallback"
       ELSE ret' = combine_market_results(results) /\ pc' = "done"
    /\ UNCHANGED <<chunkVars, extractVars, idx, results, calls, response>>
    /\ UNCHANGED <<cleanVars, pipeVars, fetchVars>>

RetryWholeCall(value) == IF value = None THEN "fallback" ELSE "done"

\* the value of the whole-content call is returned, whatever it is
AfterWholeCall(value) == "done"

\* return self.parse_with_ai(markdown_content)
Fallback ==
    /\ pc = "fallback"
    /\ \E reply \in ModelReplies :
          /\ response' = reply
          /\ calls' = Append(calls,
                WholeCall(FallbackPromptText(content, chunks, idx), reply))
          /\ ret' = parse_with_ai_result(reply)
          /\ pc' = AfterWholeCall(parse_with_ai_result(reply))
    /\ UNCHANGED <<chunkVars, extractVars, idx, results>>
    /\ UNCHANGED <<cleanVars, pipeVars, fetchVars>>

NextParse == StartChunked \/ ProcessChunk \/ CombineResults \/ Fallback

SpecParse == InitParse /\ [][NextParse]_vars

\* every call of the model and every step of the function ends
SpecParseLive == SpecParse /\ WF_vars(NextParse)

----------------------------------------------------------------------------
(* Claims about the orchestration *)

\* the reply is empty, or extraction from it fails
FailedReply(reply) ==
    /\ reply # Raised
    /\ \/ Len(reply) = 0
       \/ extract_json_from_response(reply) = None

\* the result of a whole-content call: the value extracted from its reply
\* when the reply has text and the value is not empty, None otherwise
ExtractedFrom(reply) ==
    LET value == extract_json_from_response(reply)
    IN  IF reply # Raised /\ Len(reply) > 0 /\ Truthy(value) THEN value
        ELSE None

\* C10: when a chunk yields an empty reply or one from which extraction
\* fails, no later chunk is sent to the model, exactly one more call is
\* made, over the full original content, and the value returned is the one
\* extracted from that call's reply, not a merge of the chunks that
\* succeeded.
C10_FallbackEscalation ==
    \A k \in 1..Len(calls) :
        (calls[k].kind = "chunk" /\ FailedReply(calls[k].reply)) =>
            /\ \A j \in 1..k : calls[j].kind = "chunk" /\ calls[j].index = j
            /\ pc \in {"fallback", "done"}
            /\ Len(calls) <= k + 1
            /\ pc = "done" =>
                  /\ Len(calls) = k + 1
                  /\ calls[k + 1].kind = "whole"
                  /\ calls[k + 1].text = content
                  /\ ret = ExtractedFrom(calls[k + 1].reply)

\* chunk 2 of 3 came back empty after chunk 1 succeeded, and the value of
\* the whole-content call was returned
C10_Witness ==
    /\ pc = "done"
    /\ Len(chunks) = 3
    /\ Len(calls) = 3
    /\ calls[1].reply = ReplyFenced
    /\ calls[2].reply = ReplyEmpty
    /\ calls[3].kind = "whole"
    /\ calls[3].reply = ReplyPlain
    /\ ret = Loads(ReplyPlain)

\* the "markets" array of the value extracted from the reply to chunk k,
\* empty when the value has no such key
ChunkMarkets(k) ==
    Only({IF Markets \in DOMAIN value[2] THEN Items(value[2][Markets])
          ELSE <<>> :
          value \in {extract_json_from_response(calls[k].reply)}})

\* number of merged entries that come from the chunks before chunk k
RECURSIVE MarketsBefore(_)
MarketsBefore(k) ==
    IF k <= 1 THEN 0 ELSE MarketsBefore(k - 1) + Len(ChunkMarkets(k - 1))

\* every chunk of the run was answered with a value that was kept
EveryChunkSucceeded ==
    /\ pc = "done"
    /\ Len(calls) = Len(chunks)
    /\ \A k \in 1..Len(calls) :
          calls[k].kind = "chunk" /\ ChunkOutcome(calls[k].reply) = "append"

\* C11: when every chunk succeeds, the "markets" array of the merged
\* result is the concatenation of the per-chunk "markets" arrays in chunk
\* order: entry j of chunk k sits at position (entries of chunks before
\* k) + j, nothing is dropped as a duplicate and nothing else is added.
C11_MergeOrdering ==
    EveryChunkSucceeded =>
        /\ IsObj(ret)
        /\ DOMAIN ret[2] = {Markets}
        /\ IsArr(ret[2][Markets])
        /\ Len(ret[2][Markets][2]) = MarketsBefore(Len(calls) + 1)
        /\ \A k \in 1..Len(calls) :
              \A j \in 1..Len(ChunkMarkets(k)) :
                  ret[2][Markets][2][MarketsBefore(k) + j] = ChunkMarkets(k)[j]

\* three chunks answered with [1], [2, 3] and [4] merged to [1, 2, 3, 4]
C11_Witness ==
    /\ EveryChunkSucceeded
    /\ Len(calls) = 3
    /\ calls[1].reply = ReplyFenced
    /\ calls[2].reply = ReplyPlain
    /\ calls[3].reply = ReplyTrailingComma
    /\ ret[2][Markets][2] =
          <<<<"num", Chars("1")>>, <<"num", Chars("2")>>,
            <<"num", Chars("3")>>, <<"num", Chars("4")>>>>

\* the iteration for this reply raised: the model call or the reading of
\* response.text raised, or the log line after the extraction did
RaisedInChunk(reply) ==
    \/ reply = Raised
    \/ /\ HasText(reply)
       /\ Truthy(extract_json_from_response(reply))
       /\ LogLineRaises(extract_json_from_response(reply))

\* an exception was raised inside the try block of parse_with_ai_chunked
ExceptionRaised ==
    \/ pc # "parse_ready" /\ ChunkingRaises(content, num_chunks)
    \/ \E k \in 1..Len(calls) :
          calls[k].kind = "chunk" /\ RaisedInChunk(calls[k].reply)

\* C12: an exception raised while chunking, calling the model, reading the
\* response or handling the extracted value leads to exactly one
\* whole-content call, made over the original content as the last call of
\* the run, whose result is returned; parse_with_ai_chunked never raises.
C12_ExceptionFallsBack ==
    /\ ret # Raised
    /\ ExceptionRaised =>
          /\ pc \in {"fallback", "done"}
          /\ pc = "fallback" =>
                \A k \in 1..Len(calls) : calls[k].kind = "chunk"
          /\ pc = "done" =>
                /\ Len(calls) >= 1
                /\ \A k \in 1..Len(calls) :
                      calls[k].kind = "whole" <=> k = Len(calls)
                /\ calls[Len(calls)].text = content
                /\ ret = ExtractedFrom(calls[Len(calls)].reply)

\* the model call for chunk 2 raised and so did the whole-content call:
\* two chunk calls, one whole-content call, None returned
C12_Witness ==
    /\ pc = "done"
    /\ Len(calls) = 3
    /\ calls[1].reply = ReplyFenced
    /\ calls[2].reply = Raised
    /\ calls[3].kind = "whole"
    /\ calls[3].reply = Raised
    /\ ret = None

----------------------------------------------------------------------------
(* content_preprocessor.py: ContentPreprocessor.clean_content *)

ParenUrl == Chars("(https:")
BareUrl == Chars("https:")

\* end of the run of [^\s] characters starting at p
RECURSIVE SkipNonWs(_, _)
SkipNonWs(s, p) ==
    IF p < Len(s) /\ s[p + 1] \notin PyWs THEN SkipNonWs(s, p + 1) ELSE p

\* end of the match of \(https:[^)]*\) that starts at p, -1 when the
\* pattern does not match there
ParenUrlEnd(s, p) ==
    IF ~MatchAt(s, ParenUrl, p) THEN -1
    ELSE Only({IF close = -1 THEN -1 ELSE close + 1 :
               close \in {Find(s, <<")">>, p + Len(ParenUrl))}})

UrlEndAtColon(s, p) ==
    IF MatchAt(s, BareUrl, p) THEN p + Len(BareUrl) ELSE -1

\* end of the match of https:[^\s]* that starts at p, -1 when the pattern
\* does not match there
BareUrlEnd(s, p) ==
    IF MatchAt(s, BareUrl, p) THEN SkipNonWs(s, p + Len(BareUrl)) ELSE -1

\* re.sub(r'\(https:[^)]*\)', '', s), from position p on
RECURSIVE SubParenUrlFrom(_, _)
SubParenUrlFrom(s, p) ==
    IF p >= Len(s) THEN <<>>
    ELSE Only({IF end # -1 THEN SubParenUrlFrom(s, end)
               ELSE <<s[p + 1]>> \o SubParenUrlFrom(s, p + 1) :
               end \in {ParenUrlEnd(s, p)}})

\* re.sub(r'https:[^\s]*', '', s), from position p on
RECURSIVE SubBareUrlFrom(_, _)
SubBareUrlFrom(s, p) ==
    IF p >= Len(s) THEN <<>>
    ELSE Only({IF end # -1 THEN SubBareUrlFrom(s, end)
               ELSE <<s[p + 1]>> \o SubBareUrlFrom(s, p + 1) :
               end \in {BareUrlEnd(s, p)}})

clean_content_bare_first(t) ==
    IF t = None THEN t
    ELSE Only({SubParenUrlFrom(text, 0) : text \in {SubBareUrlFrom(t, 0)}})

\* clean_content(raw_content); re.sub raises for a value that is not a
\* string and the except clause returns the argument
clean_content(t) ==
    IF t = None THEN t
    ELSE Only({SubBareUrlFrom(text, 0) : text \in {SubParenUrlFrom(t, 0)}})

----------------------------------------------------------------------------
(* Inputs of clean_content *)

MaxPieces == 3

Pieces ==
    {Chars("https:"), <<"(">>, <<")">>, <<" ">>, Chars("x."), Chars("htt"),
     Chars("ps:y")}

RECURSIVE PieceTexts(_)
PieceTexts(k) ==
    IF k = 0 THEN {<<>>}
    ELSE Only({shorter \cup {t \o piece : t \in shorter, piece \in Pieces} :
               shorter \in {PieceTexts(k - 1)}})

LinkExample == Chars("See [link](https://x.com/a?b=1) for more")
LinkExpected == Chars("See [link] for more")
VisitExample == Chars("Visit https://x.com now")
VisitExpected == Chars("Visit  now")

CleanExamples ==
    {LinkExample, VisitExample,
     Chars("htt(https:x)ps:y"),
     Chars("a (htt(https:x)ps:y z) b"),
     Chars("Visit https://x.com. Next"),
     Chars("(see https://x.com) next"),
     Chars("(https://x.com see docs) next"),
     Chars("a\nhttps://x.com\nb")}

CleanInputs == PieceTexts(MaxPieces) \cup CleanExamples \cup {None}

----------------------------------------------------------------------------
(* Specification of clean_content *)

InitClean ==
    /\ pc = "clean_ready"
    /\ raw_content \in CleanInputs
    /\ cleaned_content = None
    /\ content = <<>>
    /\ num_chunks = 1
    /\ chunks = <<>>
    /\ idleExtract
    /\ idleParse
    /\ idleFetch
    /\ idlePipe

CleanContent ==
    /\ pc = "clean_ready"
    /\ cleaned_content' = clean_content(raw_content)
    /\ pc' = "cleaned"
    /\ UNCHANGED <<raw_content, chunkVars, extractVars, parseVars, pipeVars,
                   fetchVars>>

NextClean == CleanContent

SpecClean == InitClean /\ [][NextClean]_vars

----------------------------------------------------------------------------
(* Claims about clean_content *)

\* the text with the span [a, b) taken out
Without(t, a, b) == Slice(t, 0, a) \o Slice(t, b, Len(t))

\* index of the first whitespace character at or after p, len(t) when
\* there is none
NextWhitespace(t, p) ==
    Only({IF hits = {} THEN Len(t)
          ELSE CHOOSE q \in hits : \A r \in hits : q <= r :
          hits \in {{q \in p..(Len(t) - 1) : t[q + 1] \in PyWs}}})

\* what is left of a text with one "https:", at p: the parenthesized span
\* when "(" precedes it and a ")" follows, the token up to the next
\* whitespace otherwise
SingleUrlRemoved(t, p) ==
    IF p > 0 /\ t[p] = "(" /\ Find(t, <<")">>, p + Len(BareUrl)) # -1
    THEN Without(t, p - 1, Find(t, <<")">>, p + Len(BareUrl)) + 1)
    ELSE Without(t, p, NextWhitespace(t, p + Len(BareUrl)))

\* C16: clean_content deletes a parenthesized "(https:...)" span in its
\* entirety and only then a remaining "https:" token through the next
\* whitespace: the two examples give "See [link] for more" and
\* "Visit  now", and a text with a single "https:" loses exactly the
\* parenthesized span when there is one (unless the removal forms a new
\* "https:") and exactly the token otherwise.
C16_UrlStripperResults ==
    (pc = "cleaned" /\ raw_content # None) =>
        /\ raw_content = LinkExample => cleaned_content = LinkExpected
        /\ raw_content = VisitExample => cleaned_content = VisitExpected
        /\ Cardinality(Occurrences(raw_content, BareUrl)) = 1 =>
              \A p \in Occurrences(raw_content, BareUrl) :
                  \/ cleaned_content = SingleUrlRemoved(raw_content, p)
                  \/ Contains(SingleUrlRemoved(raw_content, p), BareUrl)

\* the link example was cleaned
C16_Witness ==
    /\ pc = "cleaned"
    /\ raw_content = LinkExample
    /\ cleaned_content = LinkExpected

\* C17: cleaning is idempotent: a cleaned text holds no "https:" and
\* cleaning it again changes nothing, even when the removal of a span
\* joined the text around it into a new "https:".
C17_Idempotent ==
    pc = "cleaned" =>
        /\ clean_content(cleaned_content) = cleaned_content
        /\ raw_content # None => ~Contains(cleaned_content, BareUrl)

\* removing "(https:x)" joined "htt" and "ps:y" into "https:y", which the
\* second substitution removed
C17_Witness ==
    /\ pc = "cleaned"
    /\ raw_content = Chars("htt(https:x)ps:y")
    /\ SubParenUrlFrom(raw_content, 0) = Chars("https:y")
    /\ cleaned_content = <<>>

\* closing parenthesis and sentence punctuation
ClosingPunctuation == {")", ".", ",", ";", "!", "?"}

\* end of the URL that starts at p: the run of non-whitespace characters
\* without the closing punctuation at its end
RECURSIVE BackOverPunctuation(_, _, _)
BackOverPunctuation(t, e, low) ==
    IF e > low /\ t[e] \in ClosingPunctuation
    THEN BackOverPunctuation(t, e - 1, low) ELSE e

UrlStop(t, p) ==
    BackOverPunctuation(t, SkipNonWs(t, p + Len(BareUrl)), p + Len(BareUrl))

\* the characters of t from p on that are not part of an "https:" URL; a
\* pair of parentheses directly around a URL counts as part of it
RECURSIVE NonUrlFrom(_, _)
NonUrlFrom(t, p) ==
    IF p >= Len(t) THEN <<>>
    ELSE IF MatchAt(t, BareUrl, p) THEN NonUrlFrom(t, UrlStop(t, p))
    ELSE IF /\ MatchAt(t, ParenUrl, p)
            /\ CharAt(t, UrlStop(t, p + 1)) = ")"
         THEN NonUrlFrom(t, UrlStop(t, p + 1) + 1)
    ELSE <<t[p + 1]>> \o NonUrlFrom(t, p + 1)

\* a[i..] can be read off b[j..] in order
RECURSIVE IsSubsequenceFrom(_, _, _, _)
IsSubsequenceFrom(a, i, b, j) ==
    IF i > Len(a) THEN TRUE
    ELSE IF j > Len(b) THEN FALSE
    ELSE IF a[i] = b[j] THEN IsSubsequenceFrom(a, i + 1, b, j + 1)
    ELSE IsSubsequenceFrom(a, i, b, j + 1)

\* C18: the output is the input with only URL characters deleted: it can
\* be read off the input in order, and every character that is not part of
\* an "https:" URL (a closing parenthesis or sentence punctuation directly
\* after a bare URL, words after whitespace inside a parenthesis that
\* starts with "(https:") is still there, in order.
C18_NonUrlPreserved ==
    (pc = "cleaned" /\ raw_content # None) =>
        /\ IsSubsequenceFrom(cleaned_content, 1, raw_content, 1)
        /\ IsSubsequenceFrom(NonUrlFrom(raw_content, 0), 1,
                             cleaned_content, 1)

----------------------------------------------------------------------------
(* parse_with_ai_chunked as a function of the replies of the model *)

\* the calls parse_with_ai_chunked(text, n) makes and the value it returns
\* when the model answers the call for chunk i with replies[i] and the
\* whole-content call with whole
parse_with_ai_chunked(text, n, replies, whole) ==
    LET fallback(made, cs, i) ==
            [calls |-> Append(made,
                              WholeCall(FallbackPromptText(text, cs, i),
                                        whole)),
             ret |-> parse_with_ai_result(whole)]
    IN  IF ChunkingRaises(text, n) THEN fallback(<<>>, <<>>, 0)
        ELSE Only({
            Only({
                IF failing # {}
                THEN Only({fallback(SubSeq(made, 1, first), cs, first - 1) :
                           first \in {CHOOSE i \in failing :
                                         \A j \in failing : i <= j}})
                ELSE IF Len(cs) = 0 THEN [calls |-> made, ret |-> None]
                ELSE Only({
                    IF combined = Raised THEN fallback(made, cs, Len(cs))
                    ELSE [calls |-> made, ret |-> combined] :
                    combined \in {combine_market_results(
                        [i \in 1..Len(cs) |->
                            extract_json_from_response(replies[i])])}}) :
                made \in {[i \in 1..Len(cs) |->
                             ChunkCall(i, Len(cs), cs[i], replies[i])]},
                failing \in {{i \in 1..Len(cs) :
                                 ChunkOutcome(replies[i]) # "append"}}}) :
            cs \in {chunk_content_by_markets(text, n)}})

----------------------------------------------------------------------------
(* main_pipeline.py: PolymarketPipeline *)

RawFile == "jina_polymarket_content.txt"
JsonFile == "jina_polymarket_data.json"
CleanedFile == "cleaned_polymarket_content.txt"
StructuredFile == "structured_polymarket_data.json"
AutomationFile == "automation_status.json"
SummaryFile == "summary.json"

OutputFiles ==
    {RawFile, JsonFile, CleanedFile, StructuredFile, AutomationFile}

\* files[name] tells who wrote the file: Absent when there is no such
\* file, Leftover when it was there before run_full_pipeline started, k
\* when it was written while entry k of the stages list was processed
Absent == 0
Leftover == -1

\* os.path.exists(name)
Exists(fs, name) == fs[name] # Absent

Write(fs, names, k) ==
    [f \in DOMAIN fs |-> IF f \in names THEN k ELSE fs[f]]

Remove(fs, names) == Write(fs, names, Absent)

\* the stage numbers print_final_summary has a name for
StageNames == 1..4

\* what the network gives to stage 1: no connection for the test request,
\* no content for any of the three configurations, or the page
FetchOutcomes == {"no_connection", "no_content", "fetched"}

\* the text of the page
PageText == Chars("Will a (https://x.com/a)\nWho b")
CleanedPageText == clean_content(PageText)
\* the text of a cleaned file left by an earlier run
LeftoverCleanedText == Chars("Who old")

\* JinaReaderAPI.parse_and_save(): the files after it
parse_and_save(fs, k, fetch) ==
    IF fetch = "fetched" THEN Write(fs, {RawFile, JsonFile}, k) ELSE fs

Completed(done, stage) == [done EXCEPT ![stage] = TRUE]

Invocation(stage, ok, nested) ==
    [stage |-> stage, ok |-> ok, nested |-> nested]

StageOutcome(ok, fs, done) == [ok |-> ok, files |-> fs, completed |-> done]

run_stage1_unmarked(fs, done, k, fetch) ==
    IF fetch = "fetched"
    THEN StageOutcome(TRUE, parse_and_save(fs, k, fetch), done)
    ELSE StageOutcome(FALSE, fs, done)

\* run_stage1_foundation while entry k of the list is processed
run_stage1_foundation(fs, done, k, fetch) ==
    IF fetch = "fetched"
    THEN StageOutcome(TRUE, parse_and_save(fs, k, fetch), Completed(done, 1))
    ELSE StageOutcome(FALSE, fs, done)

\* cleaned_content of process_text_content: the cleaned file when there is
\* one, the cleaned text of the raw file otherwise
CleanedContent(fs) ==
    IF Exists(fs, CleanedFile) THEN LeftoverCleanedText ELSE CleanedPageText

ReplyMarket == Chars("{\"markets\": [{\"group_title\": \"g\"}]}")

PipelineReplies ==
    {ReplyMarket, ReplyPlain, ReplyEmpty, ReplyProse, Raised}

\* num_chunks of the call of line 492
DefaultChunks == 2

\* the ways parse_with_ai_chunked(cleaned_content) can go
ChunkedOutcomes ==
    [text \in {LeftoverCleanedText, CleanedPageText} |->
        {parse_with_ai_chunked(text, DefaultChunks, <<r1, r2>>, whole) :
            r1 \in PipelineReplies, r2 \in PipelineReplies,
            whole \in PipelineReplies}]

AlwaysSomeData(structured_data) == FALSE

\* if not structured_data (process_text_content line 493, run_full_pipeline
\* line 600, run_stage2_intelligence line 181)
NoStructuredData(structured_data) == ~Truthy(structured_data)

\* the statistics of lines 195-197 raise: structured_data has no get
\* method, or the value under "markets" cannot be iterated, or
\* 'group_title' in m raises for one of its elements
MarketsStatsRaise(structured_data) ==
    \/ ~IsObj(structured_data)
    \/ HasNoLen(GetMarkets(structured_data))
    \/ \E j \in 1..Len(Items(GetMarkets(structured_data))) :
          HasNoLen(Items(GetMarkets(structured_data))[j])

----------------------------------------------------------------------------
(* Inputs of the pipeline *)

MaxStages == 3

\* numbers a caller may put into the stages list; 5 is not a stage
RequestedNumbers == 1..5

RECURSIVE StageSeqs(_)
StageSeqs(k) ==
    IF k = 0 THEN {<<>>}
    ELSE Only({shorter \cup {Append(l, n) : l \in shorter,
                                            n \in RequestedNumbers} :
               shorter \in {StageSeqs(k - 1)}})

\* stages after lines 389-390: the list of the caller, or all four stages
\* when the caller gave none
DefaultStages == <<1, 2, 3, 4>>
StageLists == StageSeqs(MaxStages) \cup {DefaultStages}

\* the working directory before the run: nothing, or files left by earlier
\* runs
InitialDirs ==
    {[f \in OutputFiles |->
        IF \/ f = RawFile /\ raw
           \/ f = JsonFile /\ json
           \/ f = CleanedFile /\ cleaned
           \/ f = StructuredFile /\ structured
        THEN Leftover ELSE Absent] :
     raw \in BOOLEAN, json \in BOOLEAN, cleaned \in BOOLEAN,
     structured \in BOOLEAN}

----------------------------------------------------------------------------
(* Specification of PolymarketPipeline.run_full_pipeline *)

InitPipeline ==
    /\ pc = "pipeline_ready"
    /\ stages \in StageLists
    /\ stage_results = <<>>
    /\ stages_completed = [n \in StageNames |-> FALSE]
    /\ files \in InitialDirs
    /\ history = {}
    /\ invocations = <<>>
    /\ pipeline_ret = None
    /\ parser_use = ParserNotUsed
    /\ summary = NoSummary
    /\ content = <<>>
    /\ num_chunks = DefaultChunks
    /\ chunks = <<>>
    /\ idleExtract
    /\ idleParse
    /\ idleClean
    /\ idleFetch

\* lines 385-396
StartPipeline ==
    /\ pc = "pipeline_ready"
    /\ stage_results' = <<>>
    /\ idx' = 0
    /\ pc' = "pipeline_loop"
    /\ UNCHANGED <<stages, stages_completed, files, history, invocations,
                   pipeline_ret, content, num_chunks, chunks, extractVars,
                   results, calls, response, ret, cleanVars, parser_use,
                   summary, fetchVars>>

\* the loop of line 398 is at an entry with this stage number
AtStage(n) ==
    /\ pc = "pipeline_loop"
    /\ idx < Len(stages)
    /\ stages[idx + 1] = n

\* stage_results[n] = run_stage<n>...(): the state after the call
StageEnds(n, ok, fs, done, snapshot, made) ==
    /\ stage_results' = DictSet(stage_results, n, ok)
    /\ files' = fs
    /\ stages_completed' = done
    /\ history' = snapshot
    /\ invocations' = invocations \o made \o <<Invocation(n, ok, FALSE)>>
    /\ idx' = idx + 1
    /\ UNCHANGED <<pc, stages, pipeline_ret, num_chunks, chunks, extractVars,
                   results, response, cleanVars, fetchVars>>

\* stage_results[1] = self.run_stage1_foundation()
Stage1 ==
    /\ AtStage(1)
    /\ \E fetch \in FetchOutcomes :
          LET out == run_stage1_foundation(files, stages_completed, idx + 1,
                                           fetch)
          IN  StageEnds(1, out.ok, out.files, out.completed, history, <<>>)
    /\ UNCHANGED <<content, calls, ret, parser_use, summary>>

\* the end of run_stage2_intelligence after parse_with_ai_chunked went the
\* way parsed, over the files fs
Stage2AfterParsing(fs, done, made, parsed) ==
    IF NoStructuredData(parsed.ret)
    THEN StageEnds(2, FALSE, fs, done, history, made)
    ELSE IF Exists(fs, CleanedFile) \/ MarketsStatsRaise(parsed.ret)
    THEN StageEnds(2, FALSE, Write(fs, {StructuredFile}, idx + 1), done,
                   history, made)
    ELSE StageEnds(2, TRUE, Write(fs, {StructuredFile}, idx + 1),
                   Completed(done, 2), history, made)

\* self.stage2_parser = AIPolymarketParser(...) raised ValueError while
\* entry k of the list was processed: there is no Gemini key
ParserRefused(k) ==
    [entry |-> k, constructed |-> FALSE, ran |-> FALSE, before |-> <<>>,
     after |-> <<>>]

\* self.stage2_parser.run_full_pipeline(save_files=False) while entry k of
\* the list was processed: the files before the call and when it returns
ParserRun(k, before, after) ==
    [entry |-> k, constructed |-> TRUE, ran |-> TRUE, before |-> before,
     after |-> after]

\* stage_results[2] = self.run_stage2_intelligence(): stage 1 first when it
\* is not completed; the parser is built (has_key: a Gemini key is there);
\* its run_full_pipeline fetches the page itself when the raw file is not
\* there, cleans and parses; the structured file is written; copying the
\* cleaned file onto itself raises when the file is there
Stage2 ==
    /\ AtStage(2)
    /\ \E fetch \in IF stages_completed[1] THEN {"fetched"}
                    ELSE FetchOutcomes,
          has_key \in BOOLEAN :
          LET first == IF stages_completed[1]
                       THEN StageOutcome(TRUE, files, stages_completed)
                       ELSE run_stage1_foundation(files, stages_completed,
                                                  idx + 1, fetch)
              made == IF stages_completed[1] THEN <<>>
                      ELSE <<Invocation(1, first.ok, TRUE)>>
          IN  IF ~first.ok
              THEN /\ StageEnds(2, FALSE, first.files, first.completed,
                                history, made)
                   /\ calls' = <<>>
                   /\ parser_use' = ParserNotUsed
                   /\ UNCHANGED <<content, ret>>
              ELSE IF ~has_key
              THEN /\ StageEnds(2, FALSE, first.files, first.completed,
                                history, made)
                   /\ calls' = <<>>
                   /\ parser_use' = ParserRefused(idx + 1)
                   /\ UNCHANGED <<content, ret>>
              ELSE \E refetch \in IF Exists(first.files, RawFile)
                                  THEN {"fetched"} ELSE FetchOutcomes :
                      IF refetch # "fetched"
                      THEN /\ StageEnds(2, FALSE, first.files,
                                        first.completed, history, made)
                           /\ calls' = <<>>
                           /\ parser_use' =
                                 ParserRun(idx + 1, first.files, first.files)
                           /\ UNCHANGED <<content, ret>>
                      ELSE LET fs == IF Exists(first.files, RawFile)
                                     THEN first.files
                                     ELSE parse_and_save(first.files,
                                                         idx + 1, refetch)
                           IN  \E parsed \in
                                   ChunkedOutcomes[CleanedContent(fs)] :
                                  /\ Stage2AfterParsing(fs, first.completed,
                                                        made, parsed)
                                  /\ content' = CleanedContent(fs)
                                  /\ calls' = parsed.calls
                                  /\ ret' = parsed.ret
                                  /\ parser_use' =
                                        ParserRun(idx + 1, first.files, fs)
    /\ UNCHANGED summary

Range(seq) == {seq[k] : k \in 1..Len(seq)}

FilesMovedWhenPresent(fs, done) ==
    <<RawFile, JsonFile>>
    \o (IF Exists(fs, StructuredFile)
        THEN <<StructuredFile>>
             \o (IF Exists(fs, CleanedFile) THEN <<CleanedFile>> ELSE <<>>)
        ELSE <<>>)

\* files_moved of lines 245-270, when both raw files are there
FilesMoved(fs, done) ==
    <<RawFile, JsonFile>>
    \o (IF done[2] /\ Exists(fs, StructuredFile)
        THEN <<StructuredFile>>
             \o (IF Exists(fs, CleanedFile) THEN <<CleanedFile>> ELSE <<>>)
        ELSE <<>>)

\* run_stage3_storage over the files fs, today's directory snapshot and
\* its summary.json old
run_stage3_storage(fs, done, snapshot, old) ==
    IF ~Exists(fs, RawFile) \/ ~Exists(fs, JsonFile)
    THEN [ok |-> FALSE, files |-> fs, completed |-> done,
          history |-> snapshot, summary |-> old]
    ELSE Only({[ok |-> TRUE,
                files |-> Remove(fs, Range(files_moved)),
                completed |-> Completed(done, 3),
                history |-> snapshot \cup Range(files_moved)
                                    \cup {SummaryFile},
                summary |-> [files_saved |-> files_moved,
                             has_structured_data |->
                                 StructuredFile \in Range(files_moved)]] :
               files_moved \in {FilesMoved(fs, done)}})

\* stage_results[3] = self.run_stage3_storage()
Stage3 ==
    /\ AtStage(3)
    /\ LET out == run_stage3_storage(files, stages_completed, history,
                                     summary)
       IN  /\ StageEnds(3, out.ok, out.files, out.completed, out.history,
                        <<>>)
           /\ summary' = out.summary
    /\ UNCHANGED <<content, calls, ret, parser_use>>

run_stage4_unguarded(fs, done, k) ==
    StageOutcome(TRUE, Write(fs, {AutomationFile}, k), Completed(done, 4))

\* run_stage4_automation while entry k of the list is processed
run_stage4_automation(fs, done, k) ==
    IF ~done[2] THEN StageOutcome(FALSE, fs, done)
    ELSE StageOutcome(TRUE, Write(fs, {AutomationFile}, k),
                      Completed(done, 4))

\* stage_results[4] = self.run_stage4_automation()
Stage4 ==
    /\ AtStage(4)
    /\ LET out == run_stage4_automation(files, stages_completed, idx + 1)
       IN  StageEnds(4, out.ok, out.files, out.completed, history, <<>>)
    /\ UNCHANGED <<content, calls, ret, parser_use, summary>>

\* the else branch of the loop: stage_results[stage_num] = False
UnknownStage ==
    /\ pc = "pipeline_loop"
    /\ idx < Len(stages)
    /\ stages[idx + 1] \notin StageNames
    /\ stage_results' = DictSet(stage_results, stages[idx + 1], FALSE)
    /\ idx' = idx + 1
    /\ UNCHANGED <<pc, stages, stages_completed, files, history, invocations,
                   pipeline_ret, content, num_chunks, chunks, extractVars,
                   results, calls, response, ret, cleanVars, parser_use,
                   summary, fetchVars>>

\* print_final_summary raises KeyError: stage_names of line 432 has no
\* entry for a key of stage_results
SummaryRaises(rs) == \E n \in DOMAIN rs : n \notin StageNames

\* all(stage_results.values())
AllSucceeded(rs) == IF \A n \in DOMAIN rs : rs[n] THEN True ELSE False

\* after the loop: print_final_summary, then the return of line 420
FinishPipeline ==
    /\ pc = "pipeline_loop"
    /\ idx = Len(stages)
    /\ pipeline_ret' = IF SummaryRaises(stage_results) THEN Raised
                       ELSE AllSucceeded(stage_results)
    /\ pc' = "pipeline_done"
    /\ UNCHANGED <<stages, stage_results, stages_completed, files, history,
                   invocations, content, num_chunks, chunks, extractVars,
                   parseVars, cleanVars, parser_use, summary, fetchVars>>

NextPipeline ==
    \/ StartPipeline
    \/ Stage1
    \/ Stage2
    \/ Stage3
    \/ Stage4
    \/ UnknownStage
    \/ FinishPipeline

SpecPipeline == InitPipeline /\ [][NextPipeline]_vars

----------------------------------------------------------------------------
(* Claims about the pipeline *)

\* what a whole-content call gives for each reply of the model
FallbackValues == [reply \in PipelineReplies |-> ExtractedFrom(reply)]

\* the last call of the calls cs is the whole-content call, and it gave no
\* value: its reply was empty, nothing could be extracted, or it raised
WholeFallbackFailed(cs) ==
    /\ Len(cs) > 0
    /\ cs[Len(cs)].kind = "whole"
    /\ FallbackValues[cs[Len(cs)].reply] = None

\* C13: a stage-2 invocation whose whole-content fallback call fails too
\* reports failure, does not mark stage 2 completed and does not write the
\* structured output file.
C13_FailedFallbackFailsStage2 ==
    [][(AtStage(2) /\ idx' = idx + 1 /\ WholeFallbackFailed(calls')) =>
          /\ invocations'[Len(invocations')] = Invocation(2, FALSE, FALSE)
          /\ stage_results'[2] = FALSE
          /\ stages_completed'[2] = stages_completed[2]
          /\ files'[StructuredFile] = files[StructuredFile]]_vars

\* stage 2 was invoked once, chunk 1 was parsed, chunk 2 and the
\* whole-content call gave nothing: failure, no structured file
C13_Witness ==
    /\ pc = "pipeline_done"
    /\ stages = <<2>>
    /\ Len(calls) = 3
    /\ calls[1].reply = ReplyMarket
    /\ calls[2].reply = ReplyEmpty
    /\ WholeFallbackFailed(calls)
    /\ invocations[Len(invocations)] = Invocation(2, FALSE, FALSE)
    /\ ~stages_completed[2]
    /\ files[StructuredFile] = Absent
    /\ pipeline_ret = False

\* the stage numbers of the calls the loop of run_full_pipeline made
AttemptedStages ==
    Only({[k \in 1..Len(top) |-> top[k].stage] :
          top \in {SelectSeq(invocations, LAMBDA r : ~r.nested)}})

\* C14: for every requested list, run_full_pipeline has called every
\* requested stage, in the requested order, whether or not earlier stages
\* failed, and has then returned a result and not raised.
C14_EveryStageAttempted ==
    pc = "pipeline_done" =>
        /\ AttemptedStages = SelectSeq(stages, LAMBDA n : n \in StageNames)
        /\ pipeline_ret \in {True, False}

\* C15: for every requested list, with repeated numbers and numbers
\* outside 1-4, run_full_pipeline returns True when every stage invocation
\* made for the list succeeded (a number that is no stage counts as a
\* failure), and False otherwise.
C15_TrueIffEveryInvocationSucceeded ==
    pc = "pipeline_done" =>
        pipeline_ret =
            IF /\ \A k \in 1..Len(invocations) : invocations[k].ok
               /\ \A k \in 1..Len(stages) : stages[k] \in StageNames
            THEN True ELSE False

----------------------------------------------------------------------------
(* Claims about the boundary-based split *)

\* b: the 0-based indices of the boundary lines of the content
BoundaryLines == market_boundaries(Lines)

\* k = floor(B / N)
BoundariesPerChunk == Len(BoundaryLines) \div num_chunks

\* b[j], j 0-based
BoundaryLine(j) == BoundaryLines[j + 1]

\* first line of chunk i: line 0 for chunk 0, b[i*k] otherwise
SpanStart(i) == IF i = 0 THEN 0 ELSE BoundaryLine(i * BoundariesPerChunk)

\* the line after the last line of chunk i: b[(i+1)*k], or the end of the
\* content for the last chunk
SpanEnd(i) ==
    IF i = num_chunks - 1 THEN Len(Lines)
    ELSE BoundaryLine((i + 1) * BoundariesPerChunk)

\* number of boundary lines within the span of chunk i
BoundariesWithin(i) ==
    Cardinality({j \in 0..(Len(BoundaryLines) - 1) :
                    SpanStart(i) <= BoundaryLine(j)
                        /\ BoundaryLine(j) < SpanEnd(i)})

\* C19: with B >= N boundary lines b[0..B-1] and k = floor(B/N), chunk 0 is
\* the lines [0, b[k]), an intermediate chunk i the lines
\* [b[i*k], b[(i+1)*k]) and the last chunk the lines from b[(N-1)*k] to the
\* last line (a single chunk, being first and last, runs from line 0 to the
\* last line); so every chunk but the first starts on a boundary line,
\* every chunk is non-empty, each of the first N-1 chunks holds exactly k
\* boundary lines and the last holds the remaining ones.
C19_BoundarySplit ==
    (pc = "chunked" /\ Len(BoundaryLines) >= num_chunks) =>
        /\ Len(chunks) = num_chunks
        /\ \A i \in 0..(num_chunks - 1) :
              /\ chunks[i + 1] = Join(Slice(Lines, SpanStart(i), SpanEnd(i)))
              /\ SpanStart(i) < SpanEnd(i)
              /\ i > 0 => IsBoundary(Lines[SpanStart(i) + 1])
              /\ BoundariesWithin(i) =
                    IF i < num_chunks - 1 THEN BoundariesPerChunk
                    ELSE Len(BoundaryLines)
                            - (num_chunks - 1) * BoundariesPerChunk

\* the long text cut into three chunks of two boundary lines each: lines
\* [0, 3), [3, 6) and [6, 8)
C19_Witness ==
    /\ pc = "chunked"
    /\ content = LongContent
    /\ num_chunks = 3
    /\ BoundaryLines = <<1, 2, 3, 4, 6, 7>>
    /\ BoundariesPerChunk = 2
    /\ chunks = <<Chars("x\nWho a\nwill b"), Chars("Who c\nwill d\nwhom"),
                  Chars("Who e\nwill f")>>

----------------------------------------------------------------------------
(* Claims about the order of the extraction strategies *)

\* the text between the first occurrence of marker and the next fence,
\* trimmed, when there are both
BlockCandidates(t, marker) ==
    {Strip(Slice(t, a + Len(marker), b)) :
        <<a, b>> \in
            {ab \in Occurrences(t, marker) \X Occurrences(t, Fence) :
                /\ \A a2 \in Occurrences(t, marker) : ab[1] <= a2
                /\ ab[2] >= ab[1] + Len(marker)
                /\ \A b2 \in Occurrences(t, Fence) :
                      b2 >= ab[1] + Len(marker) => ab[2] <= b2}}

\* the text from the first "{" to the last "}"
BraceCandidates(t) ==
    {SubSeq(t, a, b) :
        <<a, b>> \in
            {ab \in (1..Len(t)) \X (1..Len(t)) :
                /\ ab[1] < ab[2]
                /\ t[ab[1]] = "{" /\ \A k \in 1..(ab[1] - 1) : t[k] # "{"
                /\ t[ab[2]] = "}"
                /\ \A k \in (ab[2] + 1)..Len(t) : t[k] # "}"}}

\* the text strategy i works on: 1 the JSON-tagged block, 2 the generic
\* block, 3 the whole trimmed response, 4 the braces
StrategyCandidates(t, i) ==
    CASE i = 1 -> BlockCandidates(t, FenceJson)
      [] i = 2 -> BlockCandidates(t, Fence)
      [] i = 3 -> {Strip(t)}
      [] i = 4 -> BraceCandidates(t)

\* strategy i produces a value: its text parses, or, for the strategies
\* that repair, parses once the trailing commas are removed
StrategySucceeds(t, i) ==
    \E c \in StrategyCandidates(t, i) :
        IF i = 3 THEN Parses(c) ELSE Recoverable(c)

\* the value strategy i produces
StrategyValue(t, i) ==
    Only({IF Parses(c) THEN Loads(c)
          ELSE Loads(WithoutTrailingCommas(c, 1)) :
          c \in StrategyCandidates(t, i)})

\* C20: the strategies are tried in the order JSON-tagged fence, generic
\* fence, whole trimmed response, brace scan, and the value returned is the
\* value of the first one that produces a value: a JSON-tagged block that
\* fails parse and repair, or that is not closed, does not make the
\* extraction fail when a later strategy succeeds; None is returned when
\* none succeeds.
C20_FirstSuccessfulStrategy ==
    (pc = "extracted" /\ response_text # None) =>
        /\ \A i \in 1..4 :
              (/\ StrategySucceeds(response_text, i)
               /\ \A j \in 1..(i - 1) : ~StrategySucceeds(response_text, j))
                  => json_data = StrategyValue(response_text, i)
        /\ (\A i \in 1..4 : ~StrategySucceeds(response_text, i))
              => json_data = None

\* a JSON-tagged block that is never closed, followed by nothing else: the
\* two fence strategies and the whole response give nothing and the brace
\* scan gives the value
C20_Witness ==
    /\ pc = "extracted"
    /\ response_text = FenceJson \o Chars("\n{\"a\": 1}")
    /\ ~StrategySucceeds(response_text, 1)
    /\ ~StrategySucceeds(response_text, 2)
    /\ ~StrategySucceeds(response_text, 3)
    /\ StrategySucceeds(response_text, 4)
    /\ json_data = Loads(Chars("{\"a\": 1}"))

----------------------------------------------------------------------------
(* Claims about the brace scan *)

\* the response has no fence and is not valid JSON as a whole
BraceScanCase(t) ==
    /\ t # None
    /\ ~Contains(t, Fence)
    /\ ~Parses(Strip(t))

\* what trying to parse c, and c repaired when that fails, gives
ParsedOrRepaired(c) ==
    IF Parses(c) THEN Loads(c)
    ELSE IF Parses(WithoutTrailingCommas(c, 1))
         THEN Loads(WithoutTrailingCommas(c, 1))
         ELSE None

\* t is one JSON object, from the first "{" of t to its last "}", with
\* other text before or after it
ObjectInProse(t) ==
    /\ t # None
    /\ \E c \in BraceCandidates(t) :
          /\ Parses(c)
          /\ Len(c) < Len(t)

\* C21: for a response without a fence that is not valid JSON as a whole,
\* the value returned is the one obtained from the brace-delimited match of
\* the text (from its first "{" to its last "}"), parsed directly or after
\* the repair; None is returned when there is no match or the match cannot
\* be parsed even after the repair; a single JSON object surrounded by
\* prose is returned.
C21_BraceScan ==
    (pc = "extracted" /\ BraceScanCase(response_text)) =>
        /\ \A c \in BraceCandidates(response_text) :
              json_data = ParsedOrRepaired(c)
        /\ BraceCandidates(response_text) = {} => json_data = None
        /\ ObjectInProse(response_text) =>
              \E c \in BraceCandidates(response_text) :
                  json_data = Loads(c) /\ json_data # None

\* a JSON object with a trailing comma between two pieces of prose has been
\* repaired and returned
C21_Witness ==
    /\ pc = "extracted"
    /\ BraceScanCase(response_text)
    /\ response_text = Chars("ok {\"a\": 1,}ok ")
    /\ json_data = Loads(Chars("{\"a\": 1}"))
    /\ json_data # None

----------------------------------------------------------------------------
(* Claims about the order of the model calls *)

\* the calls made for chunks, in the order they were made
ChunkCallsMade == {k \in 1..Len(calls) : calls[k].kind = "chunk"}

\* chunk i was sent and the value extracted from its reply was kept
ChunkSucceeded(i) ==
    \E k \in ChunkCallsMade :
        calls[k].index = i /\ ChunkOutcome(calls[k].reply) = "append"

\* C22: the model is called once per chunk in chunk order: the k-th call
\* for a chunk carries the index k, the number of chunks and the text of
\* chunk k, and no chunk call follows a whole-content call; whenever a
\* further chunk is about to be sent, the value extracted from each earlier
\* reply has already been stored; when every one of the N chunks succeeds
\* the run makes exactly N calls, none of them over the whole content.
C22_PerChunkOrder ==
    /\ \A k \in ChunkCallsMade :
          /\ \A j \in 1..k : j \in ChunkCallsMade
          /\ k <= Len(chunks)
          /\ calls[k].index = k
          /\ calls[k].total = Len(chunks)
          /\ calls[k].text = chunks[k]
    /\ pc \in {"chunk_loop", "combine"} =>
          /\ Len(results) = Len(calls)
          /\ idx = Len(calls)
          /\ \A k \in 1..Len(calls) :
                results[k] = extract_json_from_response(calls[k].reply)
    /\ (pc = "done" /\ num_chunks >= 1
            /\ \A i \in 1..num_chunks : ChunkSucceeded(i)) =>
          /\ Len(calls) = num_chunks
          /\ ChunkCallsMade = 1..num_chunks

\* three chunks were sent one after the other, each answered with a value
\* that was kept, and the run ended after these three calls
C22_Witness ==
    /\ pc = "done"
    /\ num_chunks = 3
    /\ Len(calls) = 3
    /\ \A i \in 1..3 : ChunkSucceeded(i)
    /\ \A k \in 1..3 : calls[k].text = chunks[k] /\ calls[k].index = k
    /\ calls[1].reply = ReplyNoMarkets
    /\ calls[2].reply = ReplyTrailingComma
    /\ calls[3].reply = ReplyFenced
    /\ chunks[1] # chunks[2]

----------------------------------------------------------------------------
(* Claims about the dependencies between the stages *)

\* invocation k is a call of run_stage<n> made by the loop of
\* run_full_pipeline
TopLevel(k, n) == invocations[k].stage = n /\ ~invocations[k].nested

\* invocation k is a call of run_stage1_foundation made by stage 2
NestedStage1(k) == invocations[k].stage = 1 /\ invocations[k].nested

\* stage 1 was marked completed before invocation k started
Stage1DoneBefore(k) ==
    \E j \in 1..(k - 1) : invocations[j].stage = 1 /\ invocations[j].ok

\* C23: stage 2 is marked completed only when stage 1 is; a stage-2 call
\* made while stage 1 is not completed runs stage 1 first, and only then;
\* when that run of stage 1 fails, stage 2 fails, and it has neither built
\* the AI parser nor called it, so the model has not been called either.
C23_StageDependency ==
    /\ stages_completed[2] => stages_completed[1]
    /\ \A k \in 1..Len(invocations) :
          /\ TopLevel(k, 2) =>
                IF k > 1 /\ NestedStage1(k - 1)
                THEN ~Stage1DoneBefore(k - 1)
                ELSE Stage1DoneBefore(k)
          /\ NestedStage1(k) =>
                /\ k < Len(invocations)
                /\ TopLevel(k + 1, 2)
                /\ ~invocations[k].ok => ~invocations[k + 1].ok
    /\ (Len(invocations) >= 2
            /\ invocations[Len(invocations) - 1] = Invocation(1, FALSE, TRUE))
          => /\ parser_use = ParserNotUsed
             /\ calls = <<>>
             /\ ~stages_completed[1] /\ ~stages_completed[2]

\* stage 2 was requested after a stage 1 that failed; it ran stage 1 again,
\* which failed again, and ended without the parser
C23_Witness ==
    /\ pc = "pipeline_done"
    /\ stages = <<1, 2>>
    /\ invocations = <<Invocation(1, FALSE, FALSE), Invocation(1, FALSE, TRUE),
                       Invocation(2, FALSE, FALSE)>>
    /\ parser_use = ParserNotUsed
    /\ calls = <<>>
    /\ ~stages_completed[2]
    /\ pipeline_ret = False

\* a call of run_stage<n>, nested or not, succeeded before invocation k
SucceededBefore(n, k) ==
    \E j \in 1..(k - 1) : invocations[j].stage = n /\ invocations[j].ok

\* C24: a call of stage 4 succeeds exactly when stage 2 was marked completed
\* before it, so stage 4 is marked completed only when stage 2 is; the
\* automation status file exists only after a successful stage 4; a stage
\* flag is set exactly when a call of that stage has succeeded, so a failed
\* stage 4 changes no flag.
C24_Stage4NeedsStage2 ==
    /\ stages_completed[4] => stages_completed[2]
    /\ \A k \in 1..Len(invocations) :
          TopLevel(k, 4) => (invocations[k].ok <=> SucceededBefore(2, k))
    /\ Exists(files, AutomationFile) => stages_completed[4]
    /\ \A n \in StageNames :
          stages_completed[n] <=> SucceededBefore(n, Len(invocations) + 1)

\* stage 4 was called after a successful stage 1 and without stage 2: it
\* failed, wrote nothing and left the flags as stage 1 had set them
C24_Witness ==
    /\ pc = "pipeline_done"
    /\ stages = <<1, 4>>
    /\ invocations = <<Invocation(1, TRUE, FALSE), Invocation(4, FALSE, FALSE)>>
    /\ ~Exists(files, AutomationFile)
    /\ stages_completed = [n \in StageNames |-> n = 1]
    /\ pipeline_ret = False

----------------------------------------------------------------------------
(* Claims about the snapshot of stage 3 *)

\* the files a call of stage 3 has to move, given the directory and the
\* flags it starts from
ToSnapshot ==
    {RawFile, JsonFile}
    \cup {f \in {StructuredFile} :
             stages_completed[2] /\ Exists(files, StructuredFile)}
    \cup {f \in {CleanedFile} :
             /\ stages_completed[2] /\ Exists(files, StructuredFile)
             /\ Exists(files, CleanedFile)}

\* position of file f in the list l, 0 when it is not in it
PositionIn(l, f) ==
    IF \E k \in 1..Len(l) : l[k] = f
    THEN CHOOSE k \in 1..Len(l) : l[k] = f
    ELSE 0

\* C25: a call of stage 3 that finds the raw text file or the raw JSON
\* file missing fails and moves nothing; otherwise it succeeds, moves both
\* raw files to today's directory, moves the structured file, and after it
\* the cleaned file when there is one, exactly when stage 2 is marked
\* completed and the structured file exists, leaves every other file where
\* it is, and lists in the summary the files it moved, each once.
C25_Stage3Snapshot ==
    [][AtStage(3) =>
          IF ~Exists(files, RawFile) \/ ~Exists(files, JsonFile)
          THEN /\ stage_results'[3] = FALSE
               /\ files' = files
               /\ history' = history
               /\ summary' = summary
               /\ stages_completed' = stages_completed
          ELSE /\ stage_results'[3] = TRUE
               /\ stages_completed'[3]
               /\ \A f \in OutputFiles :
                     IF f \in ToSnapshot
                     THEN ~Exists(files', f) /\ f \in history'
                     ELSE files'[f] = files[f] /\ (f \in history' <=> f \in history)
               /\ SummaryFile \in history'
               /\ Range(summary'.files_saved) = ToSnapshot
               /\ Len(summary'.files_saved) = Cardinality(ToSnapshot)
               /\ summary'.has_structured_data <=> StructuredFile \in ToSnapshot
               /\ CleanedFile \in ToSnapshot =>
                     PositionIn(summary'.files_saved, StructuredFile)
                         < PositionIn(summary'.files_saved, CleanedFile)]_vars

\* stage 2 ran stage 1 and completed, then stage 3 moved the two raw files
\* and the structured file and listed them in the summary
C25_Witness ==
    /\ pc = "pipeline_done"
    /\ stages = <<2, 3>>
    /\ stages_completed[2] /\ stages_completed[3]
    /\ summary = [files_saved |-> <<RawFile, JsonFile, StructuredFile>>,
                  has_structured_data |-> TRUE]
    /\ history = {RawFile, JsonFile, StructuredFile, SummaryFile}
    /\ \A f \in OutputFiles : ~Exists(files, f)
    /\ pipeline_ret = True

----------------------------------------------------------------------------
(* jina_reader_api.py: JinaReaderAPI.fetch_polymarket_content *)

\* the parameter configurations, in the order of the list
Configs ==
    <<[token_budget |-> 200000, timeout |-> 30, gfm |-> TRUE,
       gather_links |-> TRUE, gather_images |-> TRUE],
      [token_budget |-> 100000, timeout |-> 20, gfm |-> TRUE,
       gather_links |-> TRUE, gather_images |-> FALSE],
      [token_budget |-> 50000, timeout |-> 15, gfm |-> FALSE,
       gather_links |-> FALSE, gather_images |-> FALSE]>>

\* time.sleep(2)
RetryDelay == 2

\* what the network does with one request: the request times out, fails
\* with another RequestException or with another exception, is answered
\* with a status other than 200, or is answered with status 200 and a body
\* that is a JSON object, an empty JSON object or no JSON
NetworkAnswers ==
    {"timeout", "request_error", "other_error", "status_500",
     "json_object", "json_empty", "text"}

JsonPage == <<"obj", DictSet(<<>>, Chars("markdown"), <<"str", PageText>>)>>

TextPage ==
    <<"obj", DictSet(DictSet(<<>>, Chars("content"), <<"str", PageText>>),
                     Chars("status"), <<"str", Chars("success")>>)>>

\* fetch_url_content(target_url, config) for an answer of the network
fetch_url_content(answer) ==
    CASE answer = "json_object" -> JsonPage
      [] answer = "json_empty" -> <<"obj", <<>>>>
      [] answer = "text" -> TextPage
      [] OTHER -> None

WaitsAfterEvery(i) == TRUE

\* if i < len(configs) - 1
WaitsAfter(i) == i < Len(Configs) - 1

Request(i, answer) ==
    [kind |-> "request", config |-> Configs[i + 1], answer |-> answer,
     seconds |-> 0]

Sleep(seconds) ==
    [kind |-> "sleep", config |-> Configs[1], answer |-> "", seconds |-> seconds]

----------------------------------------------------------------------------
(* Specification of fetch_polymarket_content *)

InitFetch ==
    /\ pc = "fetch_loop"
    /\ fetch_log = <<>>
    /\ fetch_result = None
    /\ content = <<>>
    /\ num_chunks = 1
    /\ chunks = <<>>
    /\ idleExtract
    /\ idleParse
    /\ idleClean
    /\ idlePipe

\* one iteration up to the test of line 116: the request is made with
\* configs[i]; a result that is not empty is returned
TryConfiguration ==
    /\ pc = "fetch_loop"
    /\ idx < Len(Configs)
    /\ \E answer \in NetworkAnswers :
          /\ fetch_log' = Append(fetch_log, Request(idx, answer))
          /\ IF Truthy(fetch_url_content(answer))
             THEN /\ fetch_result' = fetch_url_content(answer)
                  /\ pc' = "fetch_done"
                  /\ idx' = idx
             ELSE /\ fetch_result' = fetch_result
                  /\ IF WaitsAfter(idx)
                     THEN pc' = "fetch_wait" /\ idx' = idx
                     ELSE pc' = "fetch_loop" /\ idx' = idx + 1
    /\ UNCHANGED <<chunkVars, extractVars, results, calls, response, ret,
                   cleanVars, pipeVars>>

\* time.sleep(2), then the next iteration
WaitBeforeNext ==
    /\ pc = "fetch_wait"
    /\ fetch_log' = Append(fetch_log, Sleep(RetryDelay))
    /\ idx' = idx + 1
    /\ pc' = "fetch_loop"
    /\ UNCHANGED <<fetch_result, chunkVars, extractVars, results, calls,
                   response, ret, cleanVars, pipeVars>>

\* the loop is over: return None
ReturnNoResult ==
    /\ pc = "fetch_loop"
    /\ idx >= Len(Configs)
    /\ fetch_result' = None
    /\ pc' = "fetch_done"
    /\ UNCHANGED <<fetch_log, chunkVars, extractVars, parseVars, cleanVars,
                   pipeVars>>

NextFetch == TryConfiguration \/ WaitBeforeNext \/ ReturnNoResult

SpecFetch == InitFetch /\ [][NextFetch]_vars

----------------------------------------------------------------------------
(* Claims about the retries of the fetch *)

\* the positions of the requests in the log
Requests == {j \in 1..Len(fetch_log) : fetch_log[j].kind = "request"}

\* the request at position j of the log gave a result
Yielded(j) == Truthy(fetch_url_content(fetch_log[j].answer))

\* C26: at most three requests are made, the k-th with the k-th
\* configuration of the list; a request is made only first or after a
\* wait, and a wait is made only after a request that gave no result and
\* is not the third, so there is one wait between two requests and none
\* after the last; the call ends at the first request that gives a result
\* and returns it; it returns None only when three requests were made and
\* none gave a result.
C26_FetchRetry ==
    /\ Cardinality(Requests) <= 3
    /\ \A j \in 1..Len(fetch_log) :
          IF j \in Requests
          THEN /\ j % 2 = 1
               /\ fetch_log[j].config = Configs[(j + 1) \div 2]
               /\ Yielded(j) => j = Len(fetch_log) /\ pc = "fetch_done"
          ELSE /\ j % 2 = 0
               /\ fetch_log[j].seconds = RetryDelay
               /\ j < 2 * Len(Configs)
    /\ pc = "fetch_done" =>
          /\ Len(fetch_log) \in Requests
          /\ IF Yielded(Len(fetch_log))
             THEN fetch_result = fetch_url_content(fetch_log[Len(fetch_log)].answer)
             ELSE /\ fetch_result = None
                  /\ Cardinality(Requests) = 3
                  /\ Len(fetch_log) = 5
    /\ pc # "fetch_done" => fetch_result = None

\* the first request timed out, the second was answered with an empty
\* object and the third with the page: two waits, and the page is returned
C26_Witness ==
    /\ pc = "fetch_done"
    /\ Len(fetch_log) = 5
    /\ fetch_log[1] = Request(0, "timeout")
    /\ fetch_log[2] = Sleep(RetryDelay)
    /\ fetch_log[3] = Request(1, "json_empty")
    /\ fetch_log[4] = Sleep(RetryDelay)
    /\ fetch_log[5] = Request(2, "text")
    /\ fetch_result = TextPage

----------------------------------------------------------------------------
(* Claims about the files the AI parser writes *)

\* C27: a call of the AI parser's run_full_pipeline with save_files=False
\* leaves every file as it found it: the directory when the call returns is
\* the directory it started from, whatever files were there.
C27_ParserWritesNoFile ==
    parser_use.ran => parser_use.after = parser_use.before

----------------------------------------------------------------------------
(* Claims about the success of a chunk and the number of model calls *)

\* the reply has text and the extractor recovers a JSON value from it
ValidReply(reply) ==
    /\ reply # Raised
    /\ Len(reply) > 0
    /\ extract_json_from_response(reply) # None

\* C28: when the reply to every chunk that was sent has text from which
\* the extractor recovers a JSON value, whatever its shape, the run makes
\* one call per chunk and no whole-content call, and returns the merge of
\* the values extracted from the replies.
C28_ChunkSuccessCondition ==
    (/\ pc = "done"
     /\ num_chunks >= 1
     /\ \A k \in 1..Len(calls) :
           calls[k].kind = "chunk" => ValidReply(calls[k].reply)) =>
        /\ \A k \in 1..Len(calls) : calls[k].kind = "chunk"
        /\ Len(calls) = num_chunks
        /\ ret = combine_market_results(
                    [k \in 1..Len(calls) |->
                        extract_json_from_response(calls[k].reply)])

\* the whole-content calls made so far
WholeCallsMade == {k \in 1..Len(calls) : calls[k].kind = "whole"}

\* C29: for N >= 1 chunks and any replies of the model, one call of
\* parse_with_ai_chunked never makes more than N + 1 model calls, at most
\* one of them over the whole content, never sends a chunk twice, and
\* always comes to its end.
C29_BoundedModelUsage ==
    /\ [](num_chunks >= 1 =>
             /\ Len(calls) <= num_chunks + 1
             /\ Cardinality(WholeCallsMade) <= 1
             /\ \A j, k \in ChunkCallsMade :
                   calls[j].index = calls[k].index => j = k
             /\ pc = "done" => ret # Raised)
    /\ <>(pc = "done")

\* three chunks: the third reply and the reply to the whole-content call
\* were prose, four calls were made and the run ended
C29_Witness ==
    /\ pc = "done"
    /\ num_chunks = 3
    /\ Len(calls) = num_chunks + 1
    /\ calls[3].kind = "chunk" /\ calls[3].reply = ReplyProse
    /\ calls[4].kind = "whole" /\ calls[4].reply = ReplyProse
    /\ ret = None


----------------------------------------------------------------------------
(* Claim about the outcome of stage 2 and the structured file *)

\* run_stage2_intelligence has just returned for entry idx of the list
Stage2Returned ==
    /\ pc = "pipeline_loop"
    /\ idx >= 1
    /\ stages[idx] = 2

\* C30: in every call of run_stage2_intelligence, the structured file is
\* written during the call exactly when the call returns True and has set
\* stages_completed['stage2'], also when a cleaned file is already in the
\* working directory.
C30_Stage2OutcomeMatchesArtifact ==
    Stage2Returned =>
       (files[StructuredFile] = idx <=>
           /\ invocations[Len(invocations)] = Invocation(2, TRUE, FALSE)
           /\ stage_results[2]
           /\ stages_completed[2])

====
